---- MODULE Spec2Model ----
(***************************************************************************)
(* Model of the privileged command gate (pres/executor.rs), the sudo       *)
(* keep-alive guard (pres/sudo.rs), the boot / re-authentication flow of   *)
(* the TUI (pres/main_app.rs) and the LXC existence and lifecycle          *)
(* operations (deployment/lxc.rs).                                         *)
(***************************************************************************)
EXTENDS Integers, Sequences, FiniteSets, TLC

VARIABLES
    has_sudo,        \* Capabilities.has_sudo, detected once in MainApp::new
    action_mode,     \* MainApp.action_mode
    exec_mode,       \* CommandExecutor.mode
    selected_mode,   \* boot_sequence: local selected_mode
    appPc,           \* position of the foreground (TUI) thread
    promptCaller,    \* who called show_sudo_password_prompt: "boot" | "ensure" | "none"
    attempt,         \* exit codes seen by the current authentication attempt
    sudo_keepalive,  \* MainApp.sudo_keepalive: "None" | "Some" | "Dropped"
    stop,            \* SudoKeepAliveGuard.stop (AtomicBool)
    needs_reauth,    \* SudoKeepAliveGuard.needs_reauth (AtomicBool)
    handle,          \* SudoKeepAliveGuard.handle: "None" | "Some"
    kaPc,            \* position of the keep-alive thread
    kaOk,            \* keep-alive thread local: ok
    slept,           \* keep-alive thread local: slept, in 250 ms slices
    stopCalls,       \* number of completed stop() calls on the guard
    joinNext,        \* where the foreground continues once stop() has returned
    tsValid,         \* host: sudo's credential timestamp is valid (sudo -n succeeds)
    calls,           \* the run_shell calls made by the last handler, in order
    lastEvent,       \* name of the last step taken
    op               \* the last LXC operation applied: its host and what it returned

bootVars == << has_sudo, action_mode, exec_mode, selected_mode >>
fgVars == << appPc, promptCaller, attempt, joinNext >>
guardVars == << sudo_keepalive, stop, needs_reauth, handle, stopCalls >>
kaVars == << kaPc, kaOk, slept >>

vars == << bootVars, fgVars, guardVars, kaVars, tsValid, calls, lastEvent, op >>

(***************************************************************************)
(* Bounds                                                                  *)
(***************************************************************************)
\* length of the keep-alive interval, in 250 ms sleep slices (60 s = 240 in the
\* program; the loop structure is the same for any positive number)
IntervalSlices == 2
\* explicit stop() calls made on the guard before it is dropped
MaxStopCalls == 2

(***************************************************************************)
(* pres/executor.rs                                                        *)
(***************************************************************************)
ActionMode == {"ReadOnly", "Safe", "Admin"}

\* Option<i32>: None is << >>, Some(n) is << n >>
None == << >>
Some(n) == << n >>

\* set_mode: the mode the executor holds afterwards
SetModeKeepsOld(old, mode) == old
SetMode(old, mode) == mode

\* the policy part of run_shell: its two early returns
AuthorizeNoModeCheck(mode, hasSudo, requires_admin) ==
    IF requires_admin /\ ~hasSudo THEN "MissingTool" ELSE "Permit"

AuthorizeNoSudoCheck(mode, hasSudo, requires_admin) ==
    IF requires_admin /\ mode # "Admin" THEN "NotAllowed" ELSE "Permit"

Authorize(mode, hasSudo, requires_admin) ==
    IF requires_admin /\ mode # "Admin" THEN "NotAllowed"
    ELSE IF requires_admin /\ ~hasSudo THEN "MissingTool"
    ELSE "Permit"

\* the program run_shell launches: `sudo -n sh -c cmd` or `sh -lc cmd`
Launcher(mode, requires_admin) ==
    IF requires_admin /\ mode = "Admin" THEN "sudo" ELSE "sh"

\* run_shell. spawnOk: the OS could launch the process; out: what the launched
\* process produced, [exit_code, stdout].
RunShellFailingOnNonZero(mode, hasSudo, cmd, requires_admin, spawnOk, out) ==
    LET verdict == Authorize(mode, hasSudo, requires_admin)
        failed == ~spawnOk \/ out.exit_code # Some(0)
    IN [cmd |-> cmd, requires_admin |-> requires_admin, mode |-> mode,
        result |-> IF verdict # "Permit" THEN verdict
                   ELSE IF failed THEN "Failed" ELSE "Ok",
        launches |-> IF verdict # "Permit" THEN 0 ELSE 1,
        via |-> IF verdict # "Permit" THEN "none" ELSE Launcher(mode, requires_admin),
        exit_code |-> IF verdict # "Permit" \/ failed THEN None ELSE out.exit_code,
        stdout |-> IF verdict # "Permit" \/ failed THEN << >> ELSE out.stdout]

RunShellRetrying(mode, hasSudo, cmd, requires_admin, spawnOk, out) ==
    LET verdict == Authorize(mode, hasSudo, requires_admin)
    IN [cmd |-> cmd, requires_admin |-> requires_admin, mode |-> mode,
        result |-> IF verdict # "Permit" THEN verdict
                   ELSE IF ~spawnOk THEN "Failed" ELSE "Ok",
        launches |-> IF verdict # "Permit" THEN 0 ELSE IF ~spawnOk THEN 2 ELSE 1,
        via |-> IF verdict # "Permit" THEN "none" ELSE Launcher(mode, requires_admin),
        exit_code |-> IF verdict # "Permit" \/ ~spawnOk THEN None ELSE out.exit_code,
        stdout |-> IF verdict # "Permit" \/ ~spawnOk THEN << >> ELSE out.stdout]

RunShell(mode, hasSudo, cmd, requires_admin, spawnOk, out) ==
    LET verdict == Authorize(mode, hasSudo, requires_admin) IN
    IF verdict # "Permit"
    THEN [cmd |-> cmd, requires_admin |-> requires_admin, mode |-> mode,
          result |-> verdict, launches |-> 0, via |-> "none",
          exit_code |-> None, stdout |-> << >>]
    ELSE IF ~spawnOk
    THEN [cmd |-> cmd, requires_admin |-> requires_admin, mode |-> mode,
          result |-> "Failed", launches |-> 1, via |-> Launcher(mode, requires_admin),
          exit_code |-> None, stdout |-> << >>]
    ELSE [cmd |-> cmd, requires_admin |-> requires_admin, mode |-> mode,
          result |-> "Ok", launches |-> 1, via |-> Launcher(mode, requires_admin),
          exit_code |-> out.exit_code, stdout |-> out.stdout]

IsOk(r) == r.result = "Ok"

(***************************************************************************)
(* The host, as the executor's processes see it                            *)
(***************************************************************************)
\* `sudo -n` runs nothing and prints nothing on stdout when the credential
\* timestamp is not valid; sudo then exits 1
SudoRefused == [exit_code |-> Some(1), stdout |-> << >>]

\* what a launched process produces: `body` when it runs, sudo's refusal otherwise
Launched(via, ts, body) == IF via = "sudo" /\ ~ts THEN SudoRefused ELSE body

\* outcomes of a non-interactive validation probe `sudo -n -v`: it exits 0 only
\* with a valid timestamp; a launch failure counts as a failed probe
ProbeExitCodes(ts) == IF ts THEN {0, 1} ELSE {1}

(***************************************************************************)
(* pres/sudo.rs: SudoKeepAliveGuard                                        *)
(***************************************************************************)
\* needs_reauth(): an atomic load
NeedsReauth(flag) == flag

\* clear_reauth_flag(): the value it stores
ClearedFlagStaysSet == TRUE
ClearedFlag == FALSE

\* thread body, `if !ok { needs_reauth.store(true) }`: the flag after a probe
FlagAfterProbeAlwaysSet(flag, ok) == TRUE
FlagAfterProbeTracksOk(flag, ok) == ~ok
FlagAfterProbe(flag, ok) == IF ~ok THEN TRUE ELSE flag

\* thread body, `while !stop.load()`: the thread runs another round
KaContinuesIgnoringStop(stopFlag) == TRUE
KaContinues(stopFlag) == ~stopFlag

\* stop(): `if let Some(h) = self.handle.take() { h.join() }` returns only once
\* the thread has finished
JoinNeverWaits(threadPc) == TRUE
JoinMayReturn(threadPc) == threadPc = "done"

\* SudoKeepAliveGuard::start: both flags false, the thread spawned
KaStart ==
    /\ sudo_keepalive' = "Some"
    /\ stop' = FALSE
    /\ needs_reauth' = FALSE
    /\ handle' = "Some"
    /\ kaPc' = "loop"
    /\ kaOk' = TRUE
    /\ slept' = 0
    /\ UNCHANGED stopCalls

\* thread: `while !stop_thread.load(Relaxed)`
KaLoopCheck ==
    /\ kaPc = "loop"
    /\ kaPc' = IF KaContinues(stop) THEN "probe" ELSE "done"
    /\ lastEvent' = "KaLoopCheck"
    /\ UNCHANGED << op, bootVars, fgVars, guardVars, kaOk, slept, tsValid, calls >>

\* thread: `let ok = Command::new("sudo").args(["-n","-v"]).status()...`
KaProbe ==
    /\ kaPc = "probe"
    /\ \E code \in ProbeExitCodes(tsValid) : kaOk' = (code = 0)
    /\ kaPc' = "store"
    /\ lastEvent' = "KaProbe"
    /\ UNCHANGED << op, bootVars, fgVars, guardVars, slept, tsValid, calls >>

\* thread: `if !ok { needs_reauth_thread.store(true, Relaxed) }`, then
\* `let mut slept = 0`
KaStore ==
    /\ kaPc = "store"
    /\ needs_reauth' = FlagAfterProbe(needs_reauth, kaOk)
    /\ slept' = 0
    /\ kaPc' = "sleep"
    /\ lastEvent' = IF kaOk THEN "KaProbeOk" ELSE "KaProbeFailed"
    /\ UNCHANGED << op, bootVars, fgVars, sudo_keepalive, stop, handle, stopCalls,
                    kaOk, tsValid, calls >>

\* thread: `while slept < interval && !stop.load() { sleep(250ms); slept += 250ms }`
KaSleep ==
    /\ kaPc = "sleep"
    /\ IF slept < IntervalSlices /\ ~stop
       THEN slept' = slept + 1 /\ kaPc' = "sleep"
       ELSE slept' = slept /\ kaPc' = "loop"
    /\ lastEvent' = "KaSleep"
    /\ UNCHANGED << op, bootVars, fgVars, guardVars, kaOk, tsValid, calls >>

\* stop(), first half: `self.stop.store(true)`, then `self.handle.take()`; with no
\* handle left the call returns at once. `next` is where the caller continues.
StopBegin(next) ==
    /\ stop' = TRUE
    /\ IF handle = "Some"
       THEN /\ handle' = "None"
            /\ appPc' = "joining"
            /\ joinNext' = next
            /\ UNCHANGED << stopCalls, sudo_keepalive >>
       ELSE /\ appPc' = next
            /\ stopCalls' = stopCalls + 1
            /\ sudo_keepalive' = IF next = "exit" THEN "Dropped" ELSE sudo_keepalive
            /\ UNCHANGED << joinNext, handle >>
    /\ UNCHANGED << op, bootVars, promptCaller, attempt, needs_reauth, kaVars,
                    tsValid, calls >>

\* pub fn stop(&mut self), called on the guard by its owner before the drop
GuardStop ==
    /\ appPc = "shutdown"
    /\ sudo_keepalive = "Some"
    /\ stopCalls < MaxStopCalls
    /\ StopBegin("shutdown")
    /\ lastEvent' = "GuardStop"

\* impl Drop for SudoKeepAliveGuard: `self.stop()`
GuardDrop ==
    /\ appPc = "shutdown"
    /\ sudo_keepalive = "Some"
    /\ StopBegin("exit")
    /\ lastEvent' = "GuardDrop"

\* stop(), second half: `h.join()` returns once the thread has finished
JoinReturn ==
    /\ appPc = "joining"
    /\ JoinMayReturn(kaPc)
    /\ appPc' = joinNext
    /\ joinNext' = "none"
    /\ stopCalls' = stopCalls + 1
    /\ sudo_keepalive' = IF joinNext = "exit" THEN "Dropped" ELSE sudo_keepalive
    /\ lastEvent' = "JoinReturn"
    /\ UNCHANGED << op, bootVars, promptCaller, attempt, stop, needs_reauth, handle,
                    kaVars, tsValid, calls >>

\* the process ends with no guard to drop (sudo_keepalive is None)
ExitNoGuard ==
    /\ appPc = "shutdown"
    /\ sudo_keepalive = "None"
    /\ appPc' = "exit"
    /\ lastEvent' = "ExitNoGuard"
    /\ UNCHANGED << op, bootVars, promptCaller, attempt, joinNext, guardVars, kaVars,
                    tsValid, calls >>

(***************************************************************************)
(* Text: a string is a sequence of characters, a command's stdout is a     *)
(* sequence of lines                                                       *)
(***************************************************************************)
S_found == << "f", "o", "u", "n", "d" >>
S_not_found == << "n", "o", "t", " ", "f", "o", "u", "n", "d" >>
S_yes == << "y", "e", "s" >>
S_no == << "n", "o" >>
S_exists == << "e", "x", "i", "s", "t", "s" >>
S_sudo_colon == << "s", "u", "d", "o", ":" >>
S_error == << "e", "r", "r", "o", "r" >>
S_permission_denied == << "p", "e", "r", "m", "i", "s", "s", "i", "o", "n", " ",
                          "d", "e", "n", "i", "e", "d" >>
S_bash_colon == << "b", "a", "s", "h", ":" >>
S_commande == << "c", "o", "m", "m", "a", "n", "d", "e" >>
S_inconnue == << "i", "n", "c", "o", "n", "n", "u", "e" >>
S_command_not_found == << "c", "o", "m", "m", "a", "n", "d", " ", "n", "o", "t", " ",
                          "f", "o", "u", "n", "d" >>
S_NAME == << "N", "A", "M", "E" >>
S_RUNNING == << "R", "U", "N", "N", "I", "N", "G" >>
S_STOPPED == << "S", "T", "O", "P", "P", "E", "D" >>
S_UNKNOWN == << "U", "N", "K", "N", "O", "W", "N" >>

LowerLetters == << "a", "b", "c", "d", "e", "f", "g", "h", "i", "j", "k", "l", "m",
                   "n", "o", "p", "q", "r", "s", "t", "u", "v", "w", "x", "y", "z" >>
UpperLetters == << "A", "B", "C", "D", "E", "F", "G", "H", "I", "J", "K", "L", "M",
                   "N", "O", "P", "Q", "R", "S", "T", "U", "V", "W", "X", "Y", "Z" >>
Digits == { "0", "1", "2", "3", "4", "5", "6", "7", "8", "9" }
Range(f) == { f[i] : i \in DOMAIN f }

\* char::is_alphanumeric, char::is_whitespace on the characters used here
IsAlphanumeric(c) == c \in Range(LowerLetters) \cup Range(UpperLetters) \cup Digits
IsWhitespace(c) == c \in { " ", "\t" }

\* char lower-casing, str::to_lowercase
LowerChar(c) ==
    IF c \in Range(UpperLetters)
    THEN LowerLetters[CHOOSE i \in DOMAIN UpperLetters : UpperLetters[i] = c]
    ELSE c
ToLowercase(s) == [i \in DOMAIN s |-> LowerChar(s[i])]
UpperChar(c) ==
    IF c \in Range(LowerLetters)
    THEN UpperLetters[CHOOSE i \in DOMAIN LowerLetters : LowerLetters[i] = c]
    ELSE c
ToUppercase(s) == [i \in DOMAIN s |-> UpperChar(s[i])]

\* sub occurs in s at position i
OccursAt(s, sub, i) ==
    /\ i + Len(sub) - 1 <= Len(s)
    /\ \A k \in 1..Len(sub) : s[i + k - 1] = sub[k]

\* str::contains, str::starts_with, str::ends_with
Contains(s, sub) == \E i \in 1..(Len(s) + 1) : OccursAt(s, sub, i)
StartsWith(s, sub) == OccursAt(s, sub, 1)
EndsWith(s, sub) == Len(sub) <= Len(s) /\ OccursAt(s, sub, Len(s) - Len(sub) + 1)

\* str::trim: without leading and trailing whitespace
Trim(s) ==
    LET keep == { i \in DOMAIN s : ~IsWhitespace(s[i]) } IN
    IF keep = {} THEN << >>
    ELSE LET lo == CHOOSE i \in keep : \A j \in keep : i <= j
             hi == CHOOSE i \in keep : \A j \in keep : j <= i
         IN SubSeq(s, lo, hi)

\* str::split(','): the fields of a line
RECURSIVE SplitComma(_)
SplitComma(s) ==
    LET commas == { i \in DOMAIN s : s[i] = "," } IN
    IF commas = {} THEN << s >>
    ELSE LET k == CHOOSE i \in commas : \A j \in commas : i <= j
         IN << SubSeq(s, 1, k - 1) >> \o SplitComma(SubSeq(s, k + 1, Len(s)))

\* String::contains on a whole stdout, for a pattern without a line break
StdoutContains(stdout, sub) == \E i \in DOMAIN stdout : Contains(stdout[i], sub)

\* a string of n copies of one character
Repeat(c, n) == [i \in 1..n |-> c]

(***************************************************************************)
(* The host seen by the LXC operations.  A host is a record:               *)
(*   fs       : storage root -> state of the directory <root>/<name>       *)
(*   lsSudo   : stdout of `sudo lxc-ls -1`                                 *)
(*   lsUser   : stdout of `lxc-ls -1` run as the user                      *)
(*   lxcList  : stdout of `lxc list --format csv -c n`                     *)
(*   state    : runtime state of the container, "NONE" when lxc-info       *)
(*              knows nothing about it                                     *)
(*   create1, create2 : exit codes of the two creation commands            *)
(*   appearsAt: the post-creation poll from which the container's          *)
(*              directory is there (0: it never appears)                   *)
(*   lxcInstalled, templates, rhel, rhelSetupOk : what check_lxc_installed,*)
(*              check_lxc_templates, needs_root_for_lxc and                *)
(*              setup_lxc_config_for_rhel find                             *)
(*   installExit : exit code of the package installation command          *)
(*   lxcAfter, templatesAfter : what the two detections find once the     *)
(*              packages have been installed                               *)
(*   ts       : sudo's credential timestamp is valid                       *)
(*   spawnOk  : the OS can launch processes                                *)
(* A command is a pair << what, argument >>.                               *)
(***************************************************************************)
\* container_paths of check_container_exists_with_executor, in its order
RootLxc == "/var/lib/lxc"
RootHome == "~/.local/share/lxc"
RootLxd == "/var/lib/lxd/containers"
ContainerRoots == << RootLxc, RootHome, RootLxd >>
DirStates == { "absent", "bare", "config", "rootfs" }

\* the container name the operations are about, and another one
N_web01 == << "w", "e", "b", "0", "1" >>
N_db2 == << "d", "b", "-", "2" >>

\* `grep -q '^name$'`: some line is exactly the name
GrepLine(text, name) == \E i \in DOMAIN text : text[i] = name

\* `... && echo 'found' || echo 'not found'`, `... && echo 'yes' || echo 'no'`
EchoFound(b) == IF b THEN << S_found >> ELSE << S_not_found >>
EchoYes(b) == IF b THEN << S_yes >> ELSE << S_no >>
StateText(st) ==
    IF st = "RUNNING" THEN << S_RUNNING >>
    ELSE IF st = "STOPPED" THEN << S_STOPPED >>
    ELSE << >>

\* what each command prints and how it exits when it is actually run
HostBody(host, cmd) ==
    CASE cmd[1] = "test -d DIR && echo found || echo 'not found'" ->
            [exit_code |-> Some(0), stdout |-> EchoFound(host.fs[cmd[2]] # "absent")]
      [] cmd[1] = "test -f DIR/config && echo yes || echo no" ->
            [exit_code |-> Some(0), stdout |-> EchoYes(host.fs[cmd[2]] = "config")]
      [] cmd[1] = "test -d DIR/rootfs && echo yes || echo no" ->
            [exit_code |-> Some(0), stdout |-> EchoYes(host.fs[cmd[2]] = "rootfs")]
      [] cmd[1] = "sudo -n lxc-ls -1 | grep -q ^NAME$ && echo found || echo 'not found'" ->
            [exit_code |-> Some(0), stdout |-> EchoFound(GrepLine(host.lsSudo, N_web01))]
      [] cmd[1] = "lxc-ls -1 | grep -q ^NAME$ && echo found || echo 'not found'" ->
            [exit_code |-> Some(0), stdout |-> EchoFound(GrepLine(host.lsUser, N_web01))]
      [] cmd[1] = "lxc list | grep -q ^NAME$ && echo found || echo 'not found'" ->
            [exit_code |-> Some(0), stdout |-> EchoFound(GrepLine(host.lxcList, N_web01))]
      [] cmd[1] = "lxc-info -n NAME -s | grep State: | awk || echo UNKNOWN" ->
            [exit_code |-> Some(0), stdout |-> StateText(host.state)]
      [] cmd[1] = "lxc list NAME -c s | head -1 || echo UNKNOWN" ->
            [exit_code |-> Some(0), stdout |-> StateText(host.state)]
      [] cmd[1] = "lxc-attach -n NAME -- echo running || echo UNKNOWN" ->
            [exit_code |-> Some(0),
             stdout |-> IF host.state = "RUNNING" THEN << << "r", "u", "n", "n", "i", "n", "g" >> >>
                        ELSE << S_UNKNOWN >>]
      [] cmd[1] = "lxc-attach -n NAME -- echo test" ->
            [exit_code |-> IF host.state = "RUNNING" THEN Some(0) ELSE Some(1),
             stdout |-> << >>]
      [] cmd[1] = "test -f CONFIG && echo found || echo 'not found'" ->
            [exit_code |-> Some(0), stdout |-> EchoFound(host.fs[cmd[2]] = "config")]
      [] cmd[1] = "test -f /var/lib/lxc/NAME/config && echo exists || echo missing" ->
            [exit_code |-> Some(0),
             stdout |-> IF host.fs[RootLxc] = "config" THEN << S_exists >>
                        ELSE << << "m", "i", "s", "s", "i", "n", "g" >> >>]
      [] cmd[1] \in { "lxc-stop -f CONFIG -n NAME", "lxc-stop -P /var/lib/lxc -n NAME" } ->
            [exit_code |-> IF host.state = "RUNNING" THEN Some(0) ELSE Some(1),
             stdout |-> << >>]
      [] cmd[1] \in { "lxc-start -f CONFIG -n NAME", "lxc-start -P /var/lib/lxc -n NAME" } ->
            [exit_code |-> IF host.state = "STOPPED" THEN Some(0) ELSE Some(1),
             stdout |-> << >>]
      [] cmd[1] \in { "lxc-destroy -n NAME", "lxc-destroy -f -n NAME 2>&1" } ->
            [exit_code |-> IF \E i \in DOMAIN ContainerRoots :
                                 host.fs[ContainerRoots[i]] \in { "config", "rootfs" }
                           THEN Some(0) ELSE Some(1),
             stdout |-> << >>]
      [] cmd[1] \in { "sudo PKG install lxc lxc-templates",
                      "sudo PKG install lxc-templates" } ->
            [exit_code |-> Some(host.installExit), stdout |-> << >>]
      [] cmd[1] = "lxc-create -n NAME -t alpine -- --release vVERSION" ->
            [exit_code |-> Some(host.create1), stdout |-> << >>]
      [] cmd[1] = "lxc-create -n NAME -t download -- --dist alpine --release VERSION --arch amd64" ->
            [exit_code |-> Some(host.create2), stdout |-> << >>]
      [] cmd[1] = "sudo -n lxc-ls -1 2>&1" ->
            [exit_code |-> Some(0), stdout |-> host.lsSudo]
      [] cmd[1] = "lxc-ls -1 2>&1" ->
            [exit_code |-> Some(0), stdout |-> host.lsUser]
      [] cmd[1] = "command -v lxc && echo exists || echo 'not found'" ->
            [exit_code |-> Some(0),
             stdout |-> IF host.hasLxc THEN << S_exists >> ELSE << S_not_found >>]
      [] cmd[1] = "lxc list --format csv -c n,s" ->
            [exit_code |-> Some(0), stdout |-> host.lxcList]
      [] cmd[1] = "sudo -n ls -1 BASE 2>&1" ->
            [exit_code |-> Some(0),
             stdout |-> [i \in DOMAIN host.entries[cmd[2]] |-> host.entries[cmd[2]][i].name]]
      [] cmd[1] = "sudo -n test -f BASE/NAME/config && echo yes || echo no" ->
            [exit_code |-> Some(0),
             stdout |-> EchoYes(\E i \in DOMAIN host.entries[cmd[2][1]] :
                           /\ host.entries[cmd[2][1]][i].name = cmd[2][2]
                           /\ host.entries[cmd[2][1]][i].kind = "config")]
      [] cmd[1] = "sudo -n test -d BASE/NAME/rootfs && echo yes || echo no" ->
            [exit_code |-> Some(0),
             stdout |-> EchoYes(\E i \in DOMAIN host.entries[cmd[2][1]] :
                           /\ host.entries[cmd[2][1]][i].name = cmd[2][2]
                           /\ host.entries[cmd[2][1]][i].kind = "rootfs")]
      [] cmd[1] \in { "sudo -n lxc-info -n NAME -s | grep State: | awk || echo UNKNOWN",
                      "lxc list NAME --format csv -c s | head -1 || echo UNKNOWN" } ->
            [exit_code |-> Some(0), stdout |-> StateText(host.state)]
      [] cmd[1] \in { "sudo -n lxc-attach -n NAME -- echo running && echo RUNNING || echo STOPPED",
                      "lxc-attach -n NAME -- echo running && echo RUNNING || echo STOPPED" } ->
            [exit_code |-> Some(0),
             stdout |-> IF host.state = "RUNNING"
                        THEN << << "r", "u", "n", "n", "i", "n", "g" >>, S_RUNNING >>
                        ELSE << S_STOPPED >>]
      [] OTHER -> [exit_code |-> Some(0), stdout |-> << >>]

\* commands whose argument is a storage root, an entry of a root, or the name
RootForms ==
    { "test -d DIR && echo found || echo 'not found'",
      "test -f DIR/config && echo yes || echo no",
      "test -d DIR/rootfs && echo yes || echo no",
      "test -f CONFIG && echo found || echo 'not found'",
      "sudo -n ls -1 BASE 2>&1" }
EntryForms ==
    { "sudo -n test -f BASE/NAME/config && echo yes || echo no",
      "sudo -n test -d BASE/NAME/rootfs && echo yes || echo no" }
NameForms ==
    { "sudo -n lxc-ls -1 | grep -q ^NAME$ && echo found || echo 'not found'",
      "lxc-ls -1 | grep -q ^NAME$ && echo found || echo 'not found'",
      "lxc list | grep -q ^NAME$ && echo found || echo 'not found'",
      "lxc-info -n NAME -s | grep State: | awk || echo UNKNOWN",
      "lxc list NAME -c s | head -1 || echo UNKNOWN",
      "lxc-attach -n NAME -- echo running || echo UNKNOWN",
      "lxc-attach -n NAME -- echo test",
      "test -f /var/lib/lxc/NAME/config && echo exists || echo missing",
      "lxc-stop -f CONFIG -n NAME", "lxc-stop -P /var/lib/lxc -n NAME",
      "lxc-start -f CONFIG -n NAME", "lxc-start -P /var/lib/lxc -n NAME",
      "lxc-destroy -n NAME", "lxc-destroy -f -n NAME 2>&1",
      "sudo PKG update", "sudo PKG install lxc lxc-templates",
      "sudo PKG install lxc-templates",
      "sudo -n lxc-ls -1 2>/dev/null | grep -q '^NAME$' || true",
      "sudo -n rm -f /var/lib/lxc/.lxc-lock-NAME 2>/dev/null || true",
      "sudo -n rm -f /var/lib/lxc/NAME/.lxc-lock 2>/dev/null || true",
      "lxc-create -n NAME -t alpine -- --release vVERSION",
      "lxc-create -n NAME -t download -- --dist alpine --release VERSION --arch amd64",
      "sudo -n lxc-ls -1 2>&1", "lxc-ls -1 2>&1",
      "command -v lxc && echo exists || echo 'not found'",
      "lxc list --format csv -c n,s",
      "sudo -n lxc-info -n NAME -s | grep State: | awk || echo UNKNOWN",
      "lxc list NAME --format csv -c s | head -1 || echo UNKNOWN",
      "sudo -n lxc-attach -n NAME -- echo running && echo RUNNING || echo STOPPED",
      "lxc-attach -n NAME -- echo running && echo RUNNING || echo STOPPED" }

\* the commands whose outcome depends on the host, and the key of a command
CommandKeys(host) ==
    { << f, r >> : f \in RootForms, r \in Range(ContainerRoots) }
    \cup { << f, "" >> : f \in NameForms }
    \cup UNION { { << f, << r, host.entries[r][i].name >> >> : f \in EntryForms,
                                                          i \in DOMAIN host.entries[r] } :
                r \in Range(ContainerRoots) }
Key(cmd) == IF cmd[1] \in NameForms THEN << cmd[1], "" >> ELSE cmd

\* the host with the outcome of every command worked out: field `out`
Prepared(host) ==
    ("out" :> [k \in CommandKeys(host) |-> HostBody(host, k)]) @@ host

\* executor.run_shell(cmd, requires_admin) on a prepared host
Exec(ctx, host, cmd, requires_admin) ==
    RunShell(ctx.mode, ctx.has_sudo, cmd, requires_admin, host.spawnOk,
             Launched(Launcher(ctx.mode, requires_admin), host.ts,
                      IF Key(cmd) \in DOMAIN host.out THEN host.out[Key(cmd)]
                      ELSE [exit_code |-> Some(0), stdout |-> EchoYes(FALSE)]))

\* sequencing of statements: the value v computed so far, handed on to Rest
Then(v, Rest(_)) == CHOOSE r \in { Rest(x) : x \in { v } } : TRUE

\* index of the first element of 1..n satisfying P, 0 when there is none
FirstHit(n, P(_)) ==
    IF \E i \in 1..n : P(i) THEN CHOOSE i \in 1..n : P(i) /\ \A j \in 1..(i - 1) : ~P(j)
    ELSE 0

\* the iterations a `for ... { if hit { break } }` loop over 1..n runs
LoopRuns(n, P(_)) == IF FirstHit(n, P) = 0 THEN n ELSE FirstHit(n, P)

\* a host with no container, no listing output and nothing installed wrongly
QuietHost ==
    [fs |-> [r \in Range(ContainerRoots) |-> "absent"],
     lsSudo |-> << >>, lsUser |-> << >>, lxcList |-> << >>, hasLxc |-> FALSE,
     entries |-> [r \in Range(ContainerRoots) |-> << >>],
     readable |-> [r \in Range(ContainerRoots) |-> FALSE],
     state |-> "NONE", create1 |-> 0, create2 |-> 0, appearsAt |-> 0,
     lxcInstalled |-> TRUE, templates |-> TRUE, rhel |-> FALSE, rhelSetupOk |-> TRUE,
     installExit |-> 0, lxcAfter |-> TRUE, templatesAfter |-> TRUE,
     ts |-> TRUE, spawnOk |-> TRUE]

\* no LXC operation applied yet
NoOp == [name |-> "none"]

(***************************************************************************)
(* deployment/lxc.rs: existence checks                                     *)
(***************************************************************************)
\* `if let Ok(output) = ... { if output.stdout.contains("found") {`
SaysFound(r) == IsOk(r) /\ StdoutContains(r.stdout, S_found)

\* `config_out.stdout.contains("yes") || rootfs_out.stdout.contains("yes")` under
\* `if let (Ok(config_out), Ok(rootfs_out))`
StructureValidAlways(config_out, rootfs_out) == TRUE
StructureValid(config_out, rootfs_out) ==
    /\ IsOk(config_out) /\ IsOk(rootfs_out)
    /\ StdoutContains(config_out.stdout, S_yes) \/ StdoutContains(rootfs_out.stdout, S_yes)

\* check_container_exists_with_executor: [value, calls]
CheckContainerExistsWithExecutor(ctx, host) ==
    LET dirCheck(i) == Exec(ctx, host,
            << "test -d DIR && echo found || echo 'not found'", ContainerRoots[i] >>, TRUE)
        dirHit(i) == SaysFound(dirCheck(i))
        filesystem_exists == FirstHit(3, dirHit) # 0
        dirCalls == [i \in 1..LoopRuns(3, dirHit) |-> dirCheck(i)]
        configCheck(i) == Exec(ctx, host,
            << "test -f DIR/config && echo yes || echo no", ContainerRoots[i] >>, TRUE)
        rootfsCheck(i) == Exec(ctx, host,
            << "test -d DIR/rootfs && echo yes || echo no", ContainerRoots[i] >>, TRUE)
        structHit(i) == StructureValid(configCheck(i), rootfsCheck(i))
        has_valid_structure == FirstHit(3, structHit) # 0
        structCalls == [k \in 1..(2 * LoopRuns(3, structHit)) |->
                          IF k % 2 = 1 THEN configCheck((k + 1) \div 2)
                          ELSE rootfsCheck(k \div 2)]
        ls_sudo == Exec(ctx, host,
            << "sudo -n lxc-ls -1 | grep -q ^NAME$ && echo found || echo 'not found'", "" >>, TRUE)
        ls_nosudo == Exec(ctx, host,
            << "lxc-ls -1 | grep -q ^NAME$ && echo found || echo 'not found'", "" >>, FALSE)
        list == Exec(ctx, host,
            << "lxc list | grep -q ^NAME$ && echo found || echo 'not found'", "" >>, FALSE)
    IN
    IF ~filesystem_exists THEN [value |-> FALSE, calls |-> dirCalls]
    ELSE IF ~has_valid_structure
    THEN [value |-> FALSE, calls |-> dirCalls \o structCalls]
    ELSE IF SaysFound(ls_sudo)
    THEN [value |-> TRUE, calls |-> dirCalls \o structCalls \o << ls_sudo >>]
    ELSE IF SaysFound(ls_nosudo)
    THEN [value |-> TRUE, calls |-> dirCalls \o structCalls \o << ls_sudo, ls_nosudo >>]
    ELSE IF SaysFound(list)
    THEN [value |-> TRUE, calls |-> dirCalls \o structCalls \o << ls_sudo, ls_nosudo, list >>]
    ELSE [value |-> has_valid_structure,
          calls |-> dirCalls \o structCalls \o << ls_sudo, ls_nosudo, list >>]

\* a line of `lxc-ls --fancy` for a line of `lxc-ls`: the name, then its columns
FancyLine(line) == line \o << " ", " " >> \o S_STOPPED

\* check_container_exists, the check without executor: listing commands run
\* directly as the user, then Path::exists on two roots
CheckContainerExists(host) ==
    LET by_ls == host.spawnOk /\ \E i \in DOMAIN host.lsUser :
                     Trim(host.lsUser[i]) = N_web01
        by_fancy == host.spawnOk /\ \E i \in DOMAIN host.lsUser :
                     Contains(FancyLine(host.lsUser[i]), N_web01)
        by_list == host.spawnOk /\ \E i \in DOMAIN host.lxcList :
                     Trim(host.lxcList[i]) = N_web01
        by_path == host.fs[RootLxc] # "absent" \/ host.fs[RootHome] # "absent"
    IN by_ls \/ by_fancy \/ by_list \/ by_path

\* `out.stdout.trim()` of a one-line output
StdoutTrim(stdout) == IF stdout = << >> THEN << >> ELSE Trim(stdout[1])

\* get_container_status: [value, calls]
GetContainerStatus(ctx, host) ==
    LET info == Exec(ctx, host,
            << "lxc-info -n NAME -s | grep State: | awk || echo UNKNOWN", "" >>, FALSE)
        list == Exec(ctx, host, << "lxc list NAME -c s | head -1 || echo UNKNOWN", "" >>, FALSE)
        attach == Exec(ctx, host,
            << "lxc-attach -n NAME -- echo running || echo UNKNOWN", "" >>, TRUE)
        s1 == StdoutTrim(info.stdout)
        s2 == ToUppercase(StdoutTrim(list.stdout))
    IN
    IF IsOk(info) /\ s1 # S_UNKNOWN /\ s1 # << >>
    THEN [value |-> s1, calls |-> << info >>]
    ELSE IF IsOk(list) /\ StdoutTrim(list.stdout) # S_UNKNOWN /\ s2 # << >>
            /\ (Contains(s2, S_RUNNING) \/ Contains(s2, S_STOPPED))
    THEN [value |-> IF Contains(s2, S_RUNNING) THEN S_RUNNING ELSE S_STOPPED,
          calls |-> << info, list >>]
    ELSE IF IsOk(attach) /\ attach.exit_code = Some(0)
    THEN [value |-> S_RUNNING, calls |-> << info, list, attach >>]
    ELSE [value |-> S_UNKNOWN, calls |-> << info, list, attach >>]

\* verify_container: always Ok(ContainerVerification); [value, calls]
VerifyContainer(ctx, host) ==
    LET e == CheckContainerExistsWithExecutor(ctx, host)
        ls == Exec(ctx, host,
            << "lxc-ls -1 | grep -q ^NAME$ && echo found || echo 'not found'", "" >>, FALSE)
        ls_sudo == Exec(ctx, host,
            << "sudo -n lxc-ls -1 | grep -q ^NAME$ && echo found || echo 'not found'", "" >>, TRUE)
        list == Exec(ctx, host,
            << "lxc list | grep -q ^NAME$ && echo found || echo 'not found'", "" >>, FALSE)
        status == GetContainerStatus(ctx, host)
        attach == Exec(ctx, host, << "lxc-attach -n NAME -- echo test", "" >>, TRUE)
    IN
    [result |-> "Ok",
     value |-> [exists |-> e.value,
                detectable_by_ls |-> SaysFound(ls) \/ SaysFound(ls_sudo),
                detectable_by_list |-> SaysFound(list),
                detectable_by_filesystem |->
                    host.fs[RootLxc] # "absent" \/ host.fs[RootHome] # "absent",
                can_get_status |-> TRUE,
                is_running |-> status.value = S_RUNNING,
                can_attach |-> IsOk(attach) /\ attach.exit_code = Some(0)],
     calls |-> e.calls \o << ls >> \o (IF SaysFound(ls) THEN << >> ELSE << ls_sudo >>)
               \o << list >> \o status.calls \o << attach >>]

\* the host as the k-th poll after a creation sees it
HostAtPoll(host, k) ==
    IF host.appearsAt # 0 /\ k >= host.appearsAt
    THEN Prepared([host EXCEPT !.fs[RootLxc] = "config"])
    ELSE host

\* create_container: `for attempt in 1..=5`
MaxPollAttempts == 5

\* the verification loop from attempt k on: [verified, polls, calls]
RECURSIVE PollFrom(_, _, _)
PollFrom(ctx, host, k) ==
    LET After(c) ==
            IF c.value THEN [verified |-> TRUE, polls |-> k, calls |-> c.calls]
            ELSE IF k >= MaxPollAttempts
            THEN [verified |-> FALSE, polls |-> k, calls |-> c.calls]
            ELSE LET Join(rest) == [rest EXCEPT !.calls = c.calls \o @]
                 IN Then(PollFrom(ctx, host, k + 1), Join)
    IN Then(CheckContainerExistsWithExecutor(ctx, HostAtPoll(host, k)), After)

\* `if self.check_container_exists_with_executor(executor) { return Err(...) }`
RejectsDuplicateNever(exists) == FALSE
RejectsDuplicate(exists) == exists

\* `result1.is_err() || result1.unwrap().exit_code != Some(0)`
NeedsFallbackNever(r1) == FALSE
NeedsFallback(r1) == ~IsOk(r1) \/ r1.exit_code # Some(0)

\* the sleeps between failed attempts: `if attempt < 5 { sleep(500 * attempt) }`
PollDelaysFlat(poll) == [k \in 1..(MaxPollAttempts - 1) |-> 500]
PollDelays(poll) ==
    [k \in 1..(IF poll.verified THEN poll.polls - 1
               ELSE IF poll.polls < MaxPollAttempts THEN poll.polls
               ELSE MaxPollAttempts - 1) |-> 500 * k]

\* create_container from `let cmd1 = ...` on, `pre` being the existence check made
CreateCommands(ctx, host, pre) ==
    LET r1 == Exec(ctx, host,
            << "lxc-create -n NAME -t alpine -- --release vVERSION", "" >>, TRUE)
        r2 == Exec(ctx, host,
            << "lxc-create -n NAME -t download -- --dist alpine --release VERSION --arch amd64",
               "" >>, TRUE)
        Finish(final) ==
            LET ran == pre.calls \o (IF NeedsFallback(r1) THEN << r1, r2 >> ELSE << r1 >>)
                Verified(poll) ==
                    [result |-> final.result, error |-> "", exit_code |-> final.exit_code,
                     verified |-> poll.verified, polls |-> poll.polls,
                     delays |-> PollDelays(poll), calls |-> ran \o poll.calls]
            IN IF IsOk(final) /\ final.exit_code = Some(0)
               THEN Then(PollFrom(ctx, host, 1), Verified)
               ELSE [result |-> final.result, error |-> "", exit_code |-> final.exit_code,
                     verified |-> FALSE, polls |-> 0, delays |-> << >>, calls |-> ran]
    IN Then(IF NeedsFallback(r1) THEN r2 ELSE r1, Finish)

\* create_container from `if self.check_container_exists_with_executor(executor)` on
CreateFromExistenceCheck(ctx, host) ==
    LET Checked(pre) ==
            IF RejectsDuplicate(pre.value)
            THEN [result |-> "Failed", error |-> "already exists", exit_code |-> None,
                  verified |-> FALSE, polls |-> 0, delays |-> << >>, calls |-> pre.calls]
            ELSE IF host.rhel /\ ~host.rhelSetupOk
            THEN [result |-> "Failed", error |-> "cannot create lxc config",
                  exit_code |-> None, verified |-> FALSE, polls |-> 0, delays |-> << >>,
                  calls |-> pre.calls]
            ELSE CreateCommands(ctx, host, pre)
    IN Then(CheckContainerExistsWithExecutor(ctx, host), Checked)

\* create_container: [result, error, exit_code, verified, polls, delays, warned, calls];
\* `if !self.check_lxc_templates() { self.log_warn(..) }` only logs
CreateContainer(ctx, host) ==
    LET Warn(r) == ("warned" :> ~host.templates) @@ r
    IN
    IF ~host.lxcInstalled
    THEN [result |-> "MissingTool", error |-> "lxc not installed", exit_code |-> None,
          verified |-> FALSE, polls |-> 0, delays |-> << >>, warned |-> FALSE,
          calls |-> << >>]
    ELSE Then(CreateFromExistenceCheck(ctx, host), Warn)

(***************************************************************************)
(* deployment/lxc.rs: list_all_containers                                  *)
(***************************************************************************)
\* `line.len() < 50`
NameLenLimit == 50

\* the error-fragment tests shared by the lxc-ls and `ls` strategies
ErrorFragment(line) ==
    \/ StartsWith(line, S_sudo_colon)
    \/ Contains(ToLowercase(line), S_error)
    \/ Contains(ToLowercase(line), S_permission_denied)
    \/ Contains(ToLowercase(line), S_bash_colon)
    \/ Contains(ToLowercase(line), S_commande)
    \/ Contains(ToLowercase(line), S_inconnue)
    \/ Contains(ToLowercase(line), S_command_not_found)

\* `is_valid_name` of the sudo lxc-ls and `ls` strategies
IsValidName(line) ==
    /\ \A i \in DOMAIN line : IsAlphanumeric(line[i]) \/ line[i] = "-" \/ line[i] = "_"
    /\ ~StartsWith(line, << "-" >>)
    /\ ~EndsWith(line, << "-" >>)
    /\ ~Contains(line, << " " >>)
    /\ ~Contains(line, << ":" >>)

\* strategy 1, `sudo -n lxc-ls -1 2>&1`: the test on a trimmed line
AcceptsSudoLsLine(line) ==
    /\ line # << >>
    /\ ~ErrorFragment(line)
    /\ Len(line) < NameLenLimit
    /\ IsValidName(line)

\* strategy 2, `lxc-ls -1 2>&1`: the test on a trimmed line
AcceptsLsLine(line) ==
    /\ line # << >>
    /\ ~ErrorFragment(line)
    /\ Len(line) < NameLenLimit

\* strategy 3, `lxc list --format csv`: the test on the first field
AcceptsCsvName(name) ==
    /\ name # << >>
    /\ name # S_NAME
    /\ ~Contains(ToLowercase(name), S_error)
    /\ ~Contains(ToLowercase(name), S_bash_colon)
    /\ ~Contains(name, S_commande)
    /\ ~Contains(name, S_inconnue)
    /\ ~Contains(name, << ":" >>)
    /\ ~Contains(name, << " " >>)
    /\ Len(name) < NameLenLimit
    /\ \A i \in DOMAIN name : IsAlphanumeric(name[i]) \/ name[i] = "-" \/ name[i] = "_"
    /\ ~StartsWith(name, << "-" >>)
    /\ ~EndsWith(name, << "-" >>)

\* strategy 3: the test on the whole stdout
CsvStdoutClean(stdout) ==
    /\ ~StdoutContains([i \in DOMAIN stdout |-> ToLowercase(stdout[i])], S_error)
    /\ ~StdoutContains([i \in DOMAIN stdout |-> ToLowercase(stdout[i])], S_bash_colon)
    /\ ~StdoutContains([i \in DOMAIN stdout |-> ToLowercase(stdout[i])], S_commande)
    /\ ~StdoutContains([i \in DOMAIN stdout |-> ToLowercase(stdout[i])], S_inconnue)
    /\ ~StdoutContains([i \in DOMAIN stdout |-> ToLowercase(stdout[i])], S_command_not_found)

\* strategy 4, `sudo -n ls -1 BASE 2>&1`: the test on a trimmed line
AcceptsDirLine(name) ==
    /\ name # << >>
    /\ ~StartsWith(name, << "." >>)
    /\ ~ErrorFragment(name)
    /\ Len(name) < NameLenLimit
    /\ IsValidName(name)

\* std::fs::read_dir entries: the test on a file name
AcceptsReadDirName(name) == ~StartsWith(name, << "." >>)

\* get_container_status_by_name: [value, calls]
StatusUsable(r) ==
    /\ IsOk(r)
    /\ StdoutTrim(r.stdout) # S_UNKNOWN
    /\ StdoutTrim(r.stdout) # << >>
    /\ ~Contains(ToLowercase(StdoutTrim(r.stdout)), S_error)
GetContainerStatusByName(ctx, host, name) ==
    LET info_sudo == Exec(ctx, host,
            << "sudo -n lxc-info -n NAME -s | grep State: | awk || echo UNKNOWN", name >>, TRUE)
        info == Exec(ctx, host,
            << "lxc-info -n NAME -s | grep State: | awk || echo UNKNOWN", name >>, FALSE)
        list == Exec(ctx, host,
            << "lxc list NAME --format csv -c s | head -1 || echo UNKNOWN", name >>, FALSE)
        attach_sudo == Exec(ctx, host,
            << "sudo -n lxc-attach -n NAME -- echo running && echo RUNNING || echo STOPPED",
               name >>, TRUE)
        attach == Exec(ctx, host,
            << "lxc-attach -n NAME -- echo running && echo RUNNING || echo STOPPED", name >>,
            FALSE)
        Verdict(r) == IF StdoutContains(r.stdout, S_RUNNING) THEN S_RUNNING ELSE S_STOPPED
        Decides(r) == IsOk(r) /\ (StdoutContains(r.stdout, S_RUNNING)
                                  \/ StdoutContains(r.stdout, S_STOPPED))
    IN
    IF StatusUsable(info_sudo)
    THEN [value |-> StdoutTrim(info_sudo.stdout), calls |-> << info_sudo >>]
    ELSE IF StatusUsable(info)
    THEN [value |-> StdoutTrim(info.stdout), calls |-> << info_sudo, info >>]
    ELSE IF StatusUsable(list)
    THEN [value |-> ToUppercase(StdoutTrim(list.stdout)),
          calls |-> << info_sudo, info, list >>]
    ELSE IF Decides(attach_sudo)
    THEN [value |-> Verdict(attach_sudo), calls |-> << info_sudo, info, list, attach_sudo >>]
    ELSE IF Decides(attach)
    THEN [value |-> Verdict(attach),
          calls |-> << info_sudo, info, list, attach_sudo, attach >>]
    ELSE [value |-> S_UNKNOWN, calls |-> << info_sudo, info, list, attach_sudo, attach >>]

\* byte order of the characters used here, for `a.name.cmp(&b.name)`
AsciiOrder ==
    << " ", "-", ".", "/", "0", "1", "2", "3", "4", "5", "6", "7", "8", "9", ":" >>
    \o UpperLetters \o << "_" >> \o LowerLetters
CharRank(c) ==
    IF c \in Range(AsciiOrder) THEN CHOOSE i \in DOMAIN AsciiOrder : AsciiOrder[i] = c
    ELSE 0
RECURSIVE NameLess(_, _)
NameLess(a, b) ==
    IF b = << >> THEN FALSE
    ELSE IF a = << >> THEN TRUE
    ELSE IF CharRank(Head(a)) # CharRank(Head(b)) THEN CharRank(Head(a)) < CharRank(Head(b))
    ELSE NameLess(Tail(a), Tail(b))

\* `containers.sort_by(|a, b| a.name.cmp(&b.name))`
RECURSIVE SortByName(_)
SortByName(cs) ==
    IF cs = << >> THEN << >>
    ELSE LET Insert(rest) ==
                 LET k == Cardinality({ i \in DOMAIN rest :
                                          ~NameLess(Head(cs).name, rest[i].name) })
                 IN SubSeq(rest, 1, k) \o << Head(cs) >> \o SubSeq(rest, k + 1, Len(rest))
         IN Then(SortByName(Tail(cs)), Insert)

\* `found_names.insert(name); containers.push(ContainerInfo { name, status })`
Push(acc, name, status, ran) ==
    [found |-> acc.found \cup { name },
     containers |-> Append(acc.containers, [name |-> name, status |-> status]),
     calls |-> acc.calls \o ran]

\* the body of each strategy's `for` loop, on one raw line (or directory entry)
ScanStep(ctx, host, strategy, base, item, acc) ==
    LET line == IF strategy = "read_dir" THEN item.name ELSE Trim(item)
        parts == SplitComma(line)
        name == IF strategy = "csv" THEN Trim(parts[1]) ELSE line
        config_out == Exec(ctx, host,
            << "sudo -n test -f BASE/NAME/config && echo yes || echo no", << base, line >> >>,
            TRUE)
        rootfs_out == Exec(ctx, host,
            << "sudo -n test -d BASE/NAME/rootfs && echo yes || echo no", << base, line >> >>,
            TRUE)
        configYes == IsOk(config_out) /\ StdoutContains(config_out.stdout, S_yes)
        rootfsYes == IsOk(rootfs_out) /\ StdoutContains(rootfs_out.stdout, S_yes)
        passes == CASE strategy = "sudo_ls" -> AcceptsSudoLsLine(line)
                    [] strategy = "ls" -> AcceptsLsLine(line)
                    [] strategy = "csv" -> line # << >> /\ AcceptsCsvName(name)
                    [] strategy = "dir" -> AcceptsDirLine(line)
                    [] strategy = "read_dir" -> AcceptsReadDirName(line)
        candidate == passes /\ name \notin acc.found
        probes == IF strategy = "dir" /\ candidate
                  THEN (IF configYes THEN << config_out >> ELSE << config_out, rootfs_out >>)
                  ELSE << >>
        is_container == CASE strategy = "dir" -> configYes \/ rootfsYes
                          [] strategy = "read_dir" -> item.kind \in { "config", "rootfs" }
                          [] OTHER -> TRUE
        WithStatus(st) == Push(acc, name, st.value, probes \o st.calls)
    IN
    IF ~(candidate /\ is_container) THEN [acc EXCEPT !.calls = @ \o probes]
    ELSE IF strategy = "csv" /\ Len(parts) >= 2
    THEN Push(acc, name, ToUppercase(Trim(parts[2])), << >>)
    ELSE Then(GetContainerStatusByName(ctx, host, name), WithStatus)

RECURSIVE Scan(_, _, _, _, _, _)
Scan(ctx, host, strategy, base, items, acc) ==
    IF items = << >> THEN acc
    ELSE LET Rest(a) == Scan(ctx, host, strategy, base, Tail(items), a)
         IN Then(ScanStep(ctx, host, strategy, base, Head(items), acc), Rest)

\* strategy 1: `sudo -n lxc-ls -1 2>&1`, run_shell(.., true); what it hands to
\* its `for` loop: [scan, items, calls]
ScanSudoLs(ctx, host) ==
    LET Lines(r1) == [scan |-> IsOk(r1), items |-> IF IsOk(r1) THEN r1.stdout ELSE << >>,
                      calls |-> << r1 >>]
    IN Then(Exec(ctx, host, << "sudo -n lxc-ls -1 2>&1", "" >>, TRUE), Lines)

\* strategy 2: `lxc-ls -1 2>&1`, run_shell(.., false)
ScanLs(ctx, host) ==
    LET Lines(r2) == [scan |-> IsOk(r2), items |-> IF IsOk(r2) THEN r2.stdout ELSE << >>,
                      calls |-> << r2 >>]
    IN Then(Exec(ctx, host, << "lxc-ls -1 2>&1", "" >>, FALSE), Lines)

\* strategy 3: `lxc list --format csv -c n,s`, when `command -v lxc` says 'exists'
ScanCsv(ctx, host) ==
    LET Listed(rc) ==
            LET Lines(r3) ==
                    [scan |-> IsOk(r3) /\ CsvStdoutClean(r3.stdout),
                     items |-> IF IsOk(r3) THEN r3.stdout ELSE << >>,
                     calls |-> << rc, r3 >>]
            IN IF ~(IsOk(rc) /\ StdoutContains(rc.stdout, S_exists))
               THEN [scan |-> FALSE, items |-> << >>, calls |-> << rc >>]
               ELSE Then(Exec(ctx, host, << "lxc list --format csv -c n,s", "" >>, FALSE),
                         Lines)
    IN Then(Exec(ctx, host, << "command -v lxc && echo exists || echo 'not found'", "" >>,
                 FALSE), Listed)

\* strategy 4 on one base path: `sudo -n ls -1 BASE 2>&1`, run_shell(.., true)
ScanDir(ctx, host, base) ==
    LET Lines(ls) == [scan |-> IsOk(ls), items |-> IF IsOk(ls) THEN ls.stdout ELSE << >>,
                      calls |-> << ls >>]
    IN Then(Exec(ctx, host, << "sudo -n ls -1 BASE 2>&1", base >>, TRUE), Lines)

\* the std::fs::read_dir pass on one base path
ScanReadDir(ctx, host, base) ==
    [scan |-> host.readable[base],
     items |-> IF host.readable[base] THEN host.entries[base] ELSE << >>,
     calls |-> << >>]

\* the strategies in the order of the code, each followed by its `for` loop
RECURSIVE ScanAll(_, _, _, _)
ScanAll(ctx, host, todo, acc) ==
    IF todo = << >> THEN acc
    ELSE LET strategy == Head(todo)[1]
             base == Head(todo)[2]
             Loop(src) ==
                 IF src.scan
                 THEN Scan(ctx, host, strategy, base, src.items,
                           [acc EXCEPT !.calls = @ \o src.calls])
                 ELSE [acc EXCEPT !.calls = @ \o src.calls]
             Rest(a) == ScanAll(ctx, host, Tail(todo), a)
             opened == CASE strategy = "sudo_ls" -> ScanSudoLs(ctx, host)
                         [] strategy = "ls" -> ScanLs(ctx, host)
                         [] strategy = "csv" -> ScanCsv(ctx, host)
                         [] strategy = "dir" -> ScanDir(ctx, host, base)
                         [] strategy = "read_dir" -> ScanReadDir(ctx, host, base)
         IN Then(Then(opened, Loop), Rest)

\* list_all_containers: always Ok(containers); [result, value, calls]
ListAllContainers(ctx, host) ==
    LET a0 == [found |-> {}, containers |-> << >>, calls |-> << >>]
        Return(a) == [result |-> "Ok", value |-> SortByName(a.containers),
                      calls |-> a.calls]
    IN Then(ScanAll(ctx, host,
                    << << "sudo_ls", "" >>, << "ls", "" >>, << "csv", "" >>,
                       << "dir", RootLxc >>, << "read_dir", RootLxc >>,
                       << "dir", RootLxd >>, << "read_dir", RootLxd >> >>, a0),
            Return)

\* the names of a listing
Names(containers) == { containers[i].name : i \in DOMAIN containers }

(***************************************************************************)
(* pres/main_app.rs: boot sequence, password prompt, ensure_admin          *)
(***************************************************************************)
\* the credential session as the foreground sees it: no guard yet, guard with
\* the reauth flag set, guard with the flag clear
SessionState ==
    IF sudo_keepalive # "Some" THEN "Unauthenticated"
    ELSE IF NeedsReauth(needs_reauth) THEN "ReauthRequired"
    ELSE "Authenticated"

\* the calls of one handler, each stamped with the session state it ran under
Stamped(trace) ==
    [i \in DOMAIN trace |->
        [cmd |-> trace[i].cmd, requires_admin |-> trace[i].requires_admin,
         mode |-> trace[i].mode, result |-> trace[i].result,
         launches |-> trace[i].launches, via |-> trace[i].via,
         exit_code |-> trace[i].exit_code, session |-> SessionState]]

\* row reached by boot_sequence after drawing the mode menu (box_y = 0)
BootPromptRow == 12
\* terminal heights tried at boot
TermHeights == {16, 24}

\* boot_sequence: `if y + 2 >= box_y + box_h - 2 { return true; }`
BootTooSmall(h) == BootPromptRow + 2 >= h - 2

\* `status.code().unwrap_or(-1)`
UnwrapOrMinus1(code) == IF code = None THEN -1 ELSE code[1]

\* show_sudo_password_prompt: `if exit_code != 0` / `verify_code == 0`
SubmitAcceptedAnyCode(code) == TRUE
SubmitAccepted(code) == UnwrapOrMinus1(code) = 0
VerifySuccessAnyCode(code) == TRUE
VerifySuccess(code) == UnwrapOrMinus1(code) = 0

NoAttempt == [submit |-> None, verify |-> None, ran |-> FALSE]

\* boot_sequence up to the mode-selection loop
BootDraw ==
    /\ appPc = "boot_start"
    /\ \E h \in TermHeights :
        IF BootTooSmall(h)
        THEN appPc' = "main" /\ UNCHANGED selected_mode
        ELSE appPc' = "boot" /\ selected_mode' = "Admin"
    /\ lastEvent' = "BootDraw"
    /\ UNCHANGED << op, has_sudo, action_mode, exec_mode, promptCaller, attempt, joinNext,
                    guardVars, kaVars, tsValid, calls >>

\* boot_sequence loop: Key::Char('1' | '2' | '3')
BootSelect ==
    /\ appPc = "boot"
    /\ \E m \in ActionMode : selected_mode' = m
    /\ lastEvent' = "BootSelect"
    /\ UNCHANGED << op, has_sudo, action_mode, exec_mode, fgVars, guardVars, kaVars,
                    tsValid, calls >>

\* boot_sequence loop: Key::Quit => return false; run() returns
BootQuit ==
    /\ appPc = "boot"
    /\ appPc' = "shutdown"
    /\ lastEvent' = "BootQuit"
    /\ UNCHANGED << op, bootVars, promptCaller, attempt, joinNext, guardVars, kaVars,
                    tsValid, calls >>

\* boot_sequence loop: Key::Enter, then action_mode / set_mode and the Admin branch
BootEnter ==
    /\ appPc = "boot"
    /\ action_mode' = selected_mode
    /\ exec_mode' = SetMode(exec_mode, selected_mode)
    /\ IF selected_mode = "Admin"
       THEN IF ~has_sudo
            THEN appPc' = "shutdown" /\ UNCHANGED promptCaller
            ELSE appPc' = "prompt_input" /\ promptCaller' = "boot"
       ELSE appPc' = "main" /\ UNCHANGED promptCaller
    /\ lastEvent' = "BootEnter"
    /\ UNCHANGED << op, has_sudo, selected_mode, attempt, joinNext, guardVars, kaVars,
                    tsValid, calls >>

\* where a failed attempt leads: an error screen inside the prompt's loop
FailedAttemptIsFatal == "shutdown"
FailedAttemptGoesTo == "prompt_error"

\* variant: a cancelled prompt opened by ensure_admin lets the gated action run
PromptReturnsTrue ==
    /\ appPc' = IF promptCaller = "boot" THEN "shutdown" ELSE "gated"
    /\ promptCaller' = "none"

\* show_sudo_password_prompt returns false to its caller
PromptReturnsFalse ==
    /\ appPc' = IF promptCaller = "boot" THEN "shutdown" ELSE "main"
    /\ promptCaller' = "none"

\* password loop: Key::Quit => return false
PromptQuit ==
    /\ appPc = "prompt_input"
    /\ PromptReturnsFalse
    /\ lastEvent' = "PromptQuit"
    /\ UNCHANGED << op, bootVars, attempt, joinNext, guardVars, kaVars, tsValid, calls >>

\* password loop ended by Key::Enter, then `sudo -S -v` fed through its stdin
PromptSubmit ==
    /\ appPc = "prompt_input"
    /\ \E pwEmpty \in BOOLEAN, spawnOk \in BOOLEAN, writeOk \in BOOLEAN,
          waitOk \in BOOLEAN, code \in {None, Some(0), Some(1)}, ts \in BOOLEAN :
        LET ran == ~pwEmpty /\ spawnOk /\ writeOk /\ waitOk IN
        /\ attempt' = [submit |-> IF ran THEN code ELSE None, verify |-> None,
                       ran |-> ran]
        /\ appPc' = IF ran /\ SubmitAccepted(code) THEN "prompt_verify"
                    ELSE FailedAttemptGoesTo
        \* sudo writes a fresh timestamp only when it accepted the secret, and
        \* may be configured to keep none
        /\ tsValid' = IF ran /\ code = Some(0) THEN ts ELSE tsValid
    /\ lastEvent' = "PromptSubmit"
    /\ UNCHANGED << op, bootVars, promptCaller, joinNext, guardVars, kaVars, calls >>

\* the separate probe `sudo -n -v`
PromptVerify ==
    /\ appPc = "prompt_verify"
    /\ \E spawnOk \in BOOLEAN, c \in ProbeExitCodes(tsValid) :
        LET code == IF spawnOk THEN Some(c) ELSE None IN
        /\ attempt' = [attempt EXCEPT !.verify = code]
        /\ appPc' = IF spawnOk /\ VerifySuccess(code) THEN "prompt_ok"
                    ELSE FailedAttemptGoesTo
    /\ lastEvent' = "PromptVerify"
    /\ UNCHANGED << op, bootVars, promptCaller, joinNext, guardVars, kaVars, tsValid,
                    calls >>

\* an error screen: Key::Quit => return false, anything else => continue
PromptErrorKey ==
    /\ appPc = "prompt_error"
    /\ \E key \in {"Quit", "Enter", "Other"} :
        IF key = "Quit"
        THEN PromptReturnsFalse /\ lastEvent' = "PromptErrorQuit"
        ELSE appPc' = "prompt_input" /\ UNCHANGED promptCaller
             /\ lastEvent' = "PromptErrorKey"
    /\ UNCHANGED << op, bootVars, attempt, joinNext, guardVars, kaVars, tsValid, calls >>

\* boot_sequence after the prompt returned true:
\* `self.sudo_keepalive = Some(SudoKeepAliveGuard::start(60 s))`
BootWithoutKeepAlive ==
    /\ appPc = "prompt_ok"
    /\ promptCaller = "boot"
    /\ appPc' = "main"
    /\ promptCaller' = "none"
    /\ lastEvent' = "BootStartKeepAlive"
    /\ UNCHANGED << op, bootVars, attempt, joinNext, guardVars, kaVars, tsValid, calls >>

BootStartKeepAlive ==
    /\ appPc = "prompt_ok"
    /\ promptCaller = "boot"
    /\ KaStart
    /\ appPc' = "main"
    /\ promptCaller' = "none"
    /\ lastEvent' = "BootStartKeepAlive"
    /\ UNCHANGED << op, bootVars, attempt, joinNext, tsValid, calls >>

\* ensure_admin after the prompt returned true: `ka.clear_reauth_flag()`
EnsureClearFlag ==
    /\ appPc = "prompt_ok"
    /\ promptCaller = "ensure"
    /\ needs_reauth' = IF sudo_keepalive = "Some" THEN ClearedFlag ELSE needs_reauth
    /\ appPc' = "gated"
    /\ promptCaller' = "none"
    /\ lastEvent' = "EnsureClearFlag"
    /\ UNCHANGED << op, bootVars, attempt, joinNext, sudo_keepalive, stop, handle,
                    stopCalls, kaVars, tsValid, calls >>

\* handle_action for a gated menu entry: ensure_admin up to its prompt
EnsureAdmin ==
    /\ appPc = "main"
    /\ IF action_mode # "Admin"
       THEN appPc' = "main" /\ UNCHANGED promptCaller
       ELSE IF sudo_keepalive = "Some" /\ NeedsReauth(needs_reauth)
            THEN appPc' = "prompt_input" /\ promptCaller' = "ensure"
            ELSE appPc' = "gated" /\ UNCHANGED promptCaller
    /\ lastEvent' = IF action_mode # "Admin" THEN "EnsureAdminRefused"
                    ELSE "EnsureAdmin"
    /\ UNCHANGED << op, bootVars, attempt, joinNext, guardVars, kaVars, tsValid, calls >>

\* the gated action itself, here start_services: one run_shell(cmd, true)
StartServices ==
    /\ appPc = "gated"
    /\ \E spawnOk \in BOOLEAN, e \in {0, 1} :
        LET via == Launcher(exec_mode, TRUE)
            r == RunShell(exec_mode, has_sudo, << "systemctl start", "" >>, TRUE, spawnOk,
                          Launched(via, tsValid, [exit_code |-> Some(e), stdout |-> << >>]))
        IN calls' = Stamped(<< r >>)
    /\ appPc' = "main"
    /\ lastEvent' = "StartServices"
    /\ UNCHANGED << op, bootVars, promptCaller, attempt, joinNext, guardVars, kaVars,
                    tsValid >>

\* an ungated, unprivileged entry, here show_dhcp_leases: one run_shell(cmd, false)
ShowDhcpLeases ==
    /\ appPc = "main"
    /\ \E spawnOk \in BOOLEAN, e \in {0, 1} :
        LET via == Launcher(exec_mode, FALSE)
            r == RunShell(exec_mode, has_sudo, << "cat dhcpd.leases", "" >>, FALSE, spawnOk,
                          Launched(via, tsValid, [exit_code |-> Some(e), stdout |-> << >>]))
        IN calls' = Stamped(<< r >>)
    /\ lastEvent' = "ShowDhcpLeases"
    /\ UNCHANGED << op, bootVars, fgVars, guardVars, kaVars, tsValid >>

\* handle_action(ContainersList): show_containers_list, dispatched without
\* ensure_admin; list_all_containers runs on the executor as it is
ShowContainersList ==
    /\ appPc = "main"
    /\ \E spawnOk \in BOOLEAN, listed \in { << >>, << N_web01 >> } :
        LET host == Prepared([QuietHost EXCEPT !.lsSudo = listed, !.ts = tsValid,
                                               !.spawnOk = spawnOk])
        IN calls' = Stamped(ListAllContainers([mode |-> exec_mode, has_sudo |-> has_sudo],
                                              host).calls)
    /\ lastEvent' = "ShowContainersList"
    /\ UNCHANGED << op, bootVars, fgVars, guardVars, kaVars, tsValid >>

\* run(): Key::Quit in the main menu breaks the loop; run() returns
MainQuit ==
    /\ appPc = "main"
    /\ appPc' = "shutdown"
    /\ lastEvent' = "MainQuit"
    /\ UNCHANGED << op, bootVars, promptCaller, attempt, joinNext, guardVars, kaVars,
                    tsValid, calls >>

\* the host: sudo's credential timestamp times out (or is revoked with sudo -k)
TimestampExpires ==
    /\ tsValid
    /\ appPc # "exit"
    /\ tsValid' = FALSE
    /\ lastEvent' = "TimestampExpires"
    /\ UNCHANGED << op, bootVars, fgVars, guardVars, kaVars, calls >>

Init ==
    /\ has_sudo \in BOOLEAN
    /\ action_mode = "Safe"
    /\ exec_mode = "Safe"
    /\ selected_mode = "Admin"
    /\ appPc = "boot_start"
    /\ promptCaller = "none"
    /\ attempt = NoAttempt
    /\ joinNext = "none"
    /\ sudo_keepalive = "None"
    /\ stop = FALSE
    /\ needs_reauth = FALSE
    /\ handle = "None"
    /\ stopCalls = 0
    /\ kaPc = "none"
    /\ kaOk = TRUE
    /\ slept = 0
    /\ tsValid \in BOOLEAN
    /\ calls = << >>
    /\ lastEvent = "Init"
    /\ op = NoOp

Next ==
    \/ BootDraw \/ BootSelect \/ BootQuit \/ BootEnter
    \/ PromptQuit \/ PromptSubmit \/ PromptVerify \/ PromptErrorKey
    \/ BootStartKeepAlive \/ EnsureClearFlag \/ EnsureAdmin
    \/ StartServices \/ ShowDhcpLeases \/ ShowContainersList \/ MainQuit
    \/ KaLoopCheck \/ KaProbe \/ KaStore \/ KaSleep
    \/ GuardStop \/ GuardDrop \/ JoinReturn \/ ExitNoGuard
    \/ TimestampExpires

Spec == Init /\ [][Next]_vars

\* the keep-alive thread is a running OS thread: each of its steps is eventually
\* taken (its probe process is assumed to end), and join() returns once the
\* thread has finished
KaFairness ==
    /\ WF_vars(KaLoopCheck) /\ WF_vars(KaProbe) /\ WF_vars(KaStore) /\ WF_vars(KaSleep)
    /\ WF_vars(JoinReturn)
SpecFair == Spec /\ KaFairness


(***************************************************************************)
(* The LXC operations applied to hosts drawn from bounded sets             *)
(***************************************************************************)
\* lines a listing command can print
L_bash_error == << "b", "a", "s", "h", ":", " ", "l", "x", "c", "-", "l", "s", ":", " ", "c", "o", "m", "m", "a", "n", "d", " ", "n", "o", "t", " ", "f", "o", "u", "n", "d" >>
L_blank == << " ", " " >>
L_my_box == << "m", "y", " ", "b", "o", "x" >>
L_db_colon_2 == << "d", "b", ":", "2" >>
L_padded_web01 == << " " >> \o N_web01 \o << " " >>
L_web01_running == N_web01 \o << "," >> \o S_RUNNING
L_long == Repeat("a", NameLenLimit)

\* outputs of `sudo -n lxc-ls -1 2>&1`
SudoLsTexts == { << >>, << N_web01, L_bash_error, L_blank, N_db2 >>, << L_my_box >> }
\* outputs of `lxc-ls -1 2>&1`
LsTexts ==
    { << >>, << N_web01, L_bash_error, L_blank, N_db2 >>, << L_my_box >>,
      << L_db_colon_2, L_padded_web01 >>, << L_long >> }
\* outputs of `lxc list --format csv -c n,s`
CsvTexts == { << N_web01 >>, << L_web01_running, L_my_box >> }
\* contents of /var/lib/lxc
EntryChoices ==
    { << >>, << [name |-> N_web01, kind |-> "config"] >>,
      << [name |-> L_my_box, kind |-> "rootfs"], [name |-> N_db2, kind |-> "bare"] >> }

\* hosts for the existence checks: every state of the three roots, each listing
\* command reporting the name or not
Reports == { << >>, << N_web01 >> }
ExistenceHosts ==
    { [QuietHost EXCEPT !.fs = f, !.lsSudo = a, !.lsUser = b, !.lxcList = c,
                        !.spawnOk = s, !.ts = t] :
        f \in [Range(ContainerRoots) -> DirStates], a \in Reports, b \in Reports,
        c \in Reports, s \in BOOLEAN, t \in { tsValid } }

\* hosts for verify_container: one root populated, the container in any state
VerifyHosts ==
    { [QuietHost EXCEPT !.fs[r] = d, !.lsSudo = a, !.lsUser = a, !.lxcList = c,
                        !.state = st, !.spawnOk = s, !.ts = t] :
        r \in Range(ContainerRoots), d \in DirStates, a \in Reports, c \in Reports,
        st \in { "RUNNING", "STOPPED", "NONE" }, s \in BOOLEAN, t \in { tsValid } }

\* hosts for create_container
CreateHosts ==
    { [QuietHost EXCEPT !.fs[RootLxc] = d, !.lsSudo = a, !.lsUser = a, !.lxcList = a,
                        !.state = "STOPPED", !.create1 = c1, !.create2 = c2, !.appearsAt = k,
                        !.lxcInstalled = inst, !.templates = tpl,
                        !.rhel = rh[1], !.rhelSetupOk = rh[2],
                        !.spawnOk = s, !.ts = t] :
        d \in DirStates, a \in { << N_web01 >> }, c1 \in { 0, 1 }, c2 \in { 0, 1 },
        k \in 0..MaxPollAttempts, inst \in BOOLEAN, tpl \in BOOLEAN,
        rh \in { << FALSE, TRUE >>, << TRUE, TRUE >>, << TRUE, FALSE >> },
        s \in BOOLEAN, t \in { tsValid } }

\* hosts for list_all_containers
ListHosts ==
    { [QuietHost EXCEPT !.lsSudo = a, !.lsUser = b, !.lxcList = c, !.hasLxc = h,
                        !.entries[RootLxc] = e, !.readable[RootLxc] = rd,
                        !.state = "STOPPED", !.spawnOk = s, !.ts = t] :
        a \in SudoLsTexts, b \in LsTexts, c \in CsvTexts, h \in BOOLEAN,
        e \in EntryChoices,
        rd \in BOOLEAN, s \in BOOLEAN, t \in { tsValid } }

\* what create_container hands back to its caller: Result<CommandOutput, ExecError>;
\* `verified` is a local of the function and is only logged
Returned(r) == [result |-> r.result, error |-> r.error, exit_code |-> r.exit_code]

\* containers_add: what the menu shows for the value create_container returned
ContainersAddShows(ret) ==
    IF ret.result = "Ok"
    THEN IF ret.exit_code = Some(0) THEN "created" ELSE "creation error"
    ELSE "error"

\* the executor the operations are given
Ctx == [mode |-> exec_mode, has_sudo |-> has_sudo]

appVars == << bootVars, fgVars, guardVars, kaVars, tsValid, calls >>

\* LXCDeployment::check_container_exists_with_executor(executor)
LxcCheckExistsWithExecutor ==
    /\ appPc = "lxc" /\ op = NoOp
    /\ \E host \in ExistenceHosts :
        LET r == CheckContainerExistsWithExecutor(Ctx, Prepared(host))
        IN op' = [name |-> "check_container_exists_with_executor", host |-> host,
                  value |-> r.value, calls |-> r.calls]
    /\ lastEvent' = "LxcCheckExistsWithExecutor"
    /\ UNCHANGED appVars

\* LXCDeployment::check_container_exists()
LxcCheckExists ==
    /\ appPc = "lxc" /\ op = NoOp
    /\ \E host \in ExistenceHosts :
        op' = [name |-> "check_container_exists", host |-> host,
               value |-> CheckContainerExists(host), calls |-> << >>]
    /\ lastEvent' = "LxcCheckExists"
    /\ UNCHANGED appVars

\* LXCDeployment::verify_container(executor)
LxcVerify ==
    /\ appPc = "lxc" /\ op = NoOp
    /\ \E host \in VerifyHosts :
        LET r == VerifyContainer(Ctx, Prepared(host))
        IN op' = [name |-> "verify_container", host |-> host, result |-> r.result,
                  value |-> r.value, calls |-> r.calls]
    /\ lastEvent' = "LxcVerify"
    /\ UNCHANGED appVars

\* LXCDeployment::create_container(executor)
LxcCreate ==
    /\ appPc = "lxc" /\ op = NoOp
    /\ \E host \in CreateHosts :
        LET r == CreateContainer(Ctx, Prepared(host))
        IN op' = [name |-> "create_container", host |-> host, result |-> r.result,
                  value |-> r, calls |-> r.calls]
    /\ lastEvent' = "LxcCreate"
    /\ UNCHANGED appVars

\* LXCDeployment::list_all_containers(executor)
LxcListAll ==
    /\ appPc = "lxc" /\ op = NoOp
    /\ \E host \in ListHosts :
        LET r == ListAllContainers(Ctx, Prepared(host))
        IN op' = [name |-> "list_all_containers", host |-> host, result |-> r.result,
                  value |-> r.value, calls |-> r.calls]
    /\ lastEvent' = "LxcListAll"
    /\ UNCHANGED appVars

(***************************************************************************)
(* deployment/lxc.rs: stop and destroy by name                             *)
(***************************************************************************)
\* possible_paths of find_container_config_path_by_name, in its order
ConfigRoots == << RootLxc, RootLxd, RootHome >>

\* find_container_config_path_by_name: [value (Option of a root), calls]
FindContainerConfigPathByName(ctx, host) ==
    LET probe == [i \in DOMAIN ConfigRoots |->
                    Exec(ctx, host,
                         << "test -f CONFIG && echo found || echo 'not found'",
                            ConfigRoots[i] >>, TRUE)]
        Hit(i) == SaysFound(probe[i])
        first == FirstHit(Len(ConfigRoots), Hit)
    IN [value |-> IF first = 0 THEN << >> ELSE << ConfigRoots[first] >>,
        calls |-> SubSeq(probe, 1, LoopRuns(Len(ConfigRoots), Hit))]

\* stop_container_by_name: [result, exit_code, calls]
StopContainerByName(ctx, host) ==
    LET Stop(config) ==
            LET r == Exec(ctx, host,
                          IF config.value # << >>
                          THEN << "lxc-stop -f CONFIG -n NAME", config.value[1] >>
                          ELSE << "lxc-stop -P /var/lib/lxc -n NAME", "" >>, TRUE)
                check == Exec(ctx, host,
                    << "test -f /var/lib/lxc/NAME/config && echo exists || echo missing",
                       "" >>, TRUE)
                alt == Exec(ctx, host, << "lxc-stop -f CONFIG -n NAME", RootLxc >>, TRUE)
                retry == IsOk(r) /\ r.exit_code # Some(0) /\ config.value = << >>
                again == retry /\ IsOk(check) /\ StdoutContains(check.stdout, S_exists)
                final == IF again THEN alt ELSE r
            IN [result |-> final.result, exit_code |-> final.exit_code,
                calls |-> config.calls \o << r >>
                          \o (IF retry THEN << check >> ELSE << >>)
                          \o (IF again THEN << alt >> ELSE << >>)]
    IN Then(FindContainerConfigPathByName(ctx, host), Stop)

\* start_container_by_name: [result, exit_code, calls]
StartContainerByName(ctx, host) ==
    LET Start(config) ==
            LET r == Exec(ctx, host,
                          IF config.value # << >>
                          THEN << "lxc-start -f CONFIG -n NAME", config.value[1] >>
                          ELSE << "lxc-start -P /var/lib/lxc -n NAME", "" >>, TRUE)
                check == Exec(ctx, host,
                    << "test -f /var/lib/lxc/NAME/config && echo exists || echo missing",
                       "" >>, TRUE)
                alt == Exec(ctx, host, << "lxc-start -f CONFIG -n NAME", RootLxc >>, TRUE)
                retry == IsOk(r) /\ r.exit_code # Some(0) /\ config.value = << >>
                again == retry /\ IsOk(check) /\ StdoutContains(check.stdout, S_exists)
                final == IF again THEN alt ELSE r
            IN [result |-> final.result, exit_code |-> final.exit_code,
                calls |-> config.calls \o << r >>
                          \o (IF retry THEN << check >> ELSE << >>)
                          \o (IF again THEN << alt >> ELSE << >>)]
    IN Then(FindContainerConfigPathByName(ctx, host), Start)

\* start_container, stop_container and find_container_config_path: the
\* statements of the by-name forms, on self.container_name
StartContainer(ctx, host) == StartContainerByName(ctx, host)
StopContainer(ctx, host) == StopContainerByName(ctx, host)

\* destroy_container: the result of `lxc-destroy -n NAME`
DestroyContainer(ctx, host) ==
    LET Returned1(r) == [result |-> r.result, exit_code |-> r.exit_code, calls |-> << r >>]
    IN Then(Exec(ctx, host, << "lxc-destroy -n NAME", "" >>, TRUE), Returned1)

\* destroy_container_by_name: `let _ = stop_container_by_name(..)`, then the result
\* of `lxc-destroy -f -n NAME 2>&1`: [result, exit_code, calls]
DestroyContainerByName(ctx, host) ==
    LET Destroy(stopped) ==
            LET r == Exec(ctx, host, << "lxc-destroy -f -n NAME 2>&1", "" >>, TRUE)
            IN [result |-> r.result, exit_code |-> r.exit_code,
                calls |-> stopped.calls \o << r >>]
    IN Then(StopContainerByName(ctx, host), Destroy)

\* containers_destroy: what the menu shows for the value destroy returned
ContainersDestroyShows(ret) ==
    IF ret.result = "Ok"
    THEN IF ret.exit_code = Some(0) THEN "destroyed" ELSE "destroy failed"
    ELSE "error"

\* the host once a destroy has gone through: the container is gone
HostAfterDestroy(host, r) ==
    IF r.result = "Ok" /\ r.exit_code = Some(0)
    THEN [host EXCEPT !.fs = QuietHost.fs, !.state = "NONE", !.lsSudo = << >>,
                      !.lsUser = << >>, !.lxcList = << >>]
    ELSE host

\* hosts for destroy_container_by_name
DestroyHosts ==
    { [QuietHost EXCEPT !.fs[RootLxc] = d, !.state = st, !.spawnOk = s, !.ts = t] :
        d \in DirStates, st \in { "RUNNING", "STOPPED", "NONE" }, s \in BOOLEAN,
        t \in { tsValid } }

\* LXCDeployment::destroy_container_by_name(executor, name), called twice in a row
LxcDestroyByName ==
    /\ appPc = "lxc" /\ op = NoOp
    /\ \E host \in DestroyHosts :
        LET r == DestroyContainerByName(Ctx, Prepared(host))
            again == DestroyContainerByName(Ctx, Prepared(HostAfterDestroy(host, r)))
        IN op' = [name |-> "destroy_container_by_name", host |-> host,
                  result |-> r.result, value |-> r, again |-> again,
                  calls |-> r.calls \o again.calls]
    /\ lastEvent' = "LxcDestroyByName"
    /\ UNCHANGED appVars

(***************************************************************************)
(* pres/executor.rs: run_shell applied to one command                      *)
(***************************************************************************)
\* what `out.status.code()` can be for a launched process: None when a signal
\* ended it, else its exit code
ExitCodes == { None, Some(0), Some(1), Some(127) }
ShellCommands == { << "true", "" >>, << "systemctl start", "" >> }

\* CommandExecutor::run_shell(cmd, requires_admin)
LxcRunShell ==
    /\ appPc = "lxc" /\ op = NoOp
    /\ \E cmd \in ShellCommands, requires_admin \in BOOLEAN, spawnOk \in BOOLEAN,
          code \in ExitCodes :
        LET host == [QuietHost EXCEPT !.spawnOk = spawnOk, !.ts = tsValid]
            out == Launched(Launcher(Ctx.mode, requires_admin), tsValid,
                            [exit_code |-> code, stdout |-> << >>])
            r == RunShell(Ctx.mode, Ctx.has_sudo, cmd, requires_admin, spawnOk, out)
        IN op' = [name |-> "run_shell", host |-> host, process |-> out,
                  result |-> r.result, value |-> r, calls |-> << r >>]
    /\ lastEvent' = "LxcRunShell"
    /\ UNCHANGED appVars

(***************************************************************************)
(* deployment/lxc.rs: cleanup_ghost_container                              *)
(***************************************************************************)
\* cleanup_cmds, in their order; each ends in `|| true`
CleanupCmds ==
    << << "sudo -n lxc-ls -1 2>/dev/null | grep -q '^NAME$' || true", "" >>,
       << "sudo -n rm -f /var/lib/lxc/.lxc-lock-NAME 2>/dev/null || true", "" >>,
       << "sudo -n rm -f /var/lib/lxc/NAME/.lxc-lock 2>/dev/null || true", "" >> >>

\* a cleanup that gives up at the first sub-command that fails
CleanupGhostContainerStopping(ctx, host) ==
    LET ran == [i \in DOMAIN CleanupCmds |-> Exec(ctx, host, CleanupCmds[i], TRUE)]
        Bad(i) == ~IsOk(ran[i]) \/ ran[i].exit_code # Some(0)
        first == FirstHit(Len(CleanupCmds), Bad)
    IN IF first = 0
       THEN [result |-> "Ok", exit_code |-> Some(0), stdout |-> << >>, calls |-> ran]
       ELSE [result |-> ran[first].result, exit_code |-> ran[first].exit_code,
             stdout |-> << >>, calls |-> SubSeq(ran, 1, first)]

\* cleanup_ghost_container: `for cmd in &cleanup_cmds { let _ = run_shell(cmd, true) }`
\* then Ok(CommandOutput { exit_code: Some(0), .. }): [result, exit_code, stdout, calls]
CleanupGhostContainer(ctx, host) ==
    [result |-> "Ok", exit_code |-> Some(0), stdout |-> << >>,
     calls |-> [i \in DOMAIN CleanupCmds |-> Exec(ctx, host, CleanupCmds[i], TRUE)]]

\* hosts for cleanup_ghost_container
CleanupHosts ==
    { [QuietHost EXCEPT !.fs[RootLxc] = d, !.lsSudo = a, !.spawnOk = s, !.ts = t] :
        d \in { "absent", "bare" }, a \in { << >>, << N_web01 >> }, s \in BOOLEAN,
        t \in { tsValid } }

\* LXCDeployment::cleanup_ghost_container(executor, name)
LxcCleanupGhost ==
    /\ appPc = "lxc" /\ op = NoOp
    /\ \E host \in CleanupHosts :
        LET r == CleanupGhostContainer(Ctx, Prepared(host))
        IN op' = [name |-> "cleanup_ghost_container", host |-> host,
                  result |-> r.result, value |-> r, calls |-> r.calls]
    /\ lastEvent' = "LxcCleanupGhost"
    /\ UNCHANGED appVars

(***************************************************************************)
(* pres/main_app.rs: deploy_lxc_container up to the creation               *)
(***************************************************************************)
\* install_lxc / install_lxc_templates: the update, `let _`, then the
\* installation, true when it ran and exited 0: [value, calls]
InstallPackages(ctx, host, install_cmd) ==
    LET update == Exec(ctx, host, << "sudo PKG update", "" >>, TRUE)
        output == Exec(ctx, host, << install_cmd, "" >>, TRUE)
    IN [value |-> IsOk(output) /\ output.exit_code = Some(0),
        calls |-> << update, output >>]

\* deploy_lxc_container from the existence check on: [stage, created, calls]
DeployCreate(ctx, host, before) ==
    LET Exists(e) ==
            IF e.value
            THEN [stage |-> "already exists", created |-> FALSE,
                  calls |-> before \o e.calls]
            ELSE LET Made(c) == [stage |-> "create_container", created |-> TRUE,
                                 result |-> Returned(c),
                                 calls |-> before \o e.calls \o c.calls]
                 IN Then(CreateContainer(ctx, host), Made)
    IN Then(CheckContainerExistsWithExecutor(ctx, host), Exists)

\* deploy_lxc_container up to `if !lxc_deploy.check_lxc_templates()`; `yes` is the
\* answer to "install LXC?": [go, stage, host, calls]
DeployLxc(ctx, host, yes) ==
    LET inst == InstallPackages(ctx, host, "sudo PKG install lxc lxc-templates")
        Stop(stage, ran) == [go |-> FALSE, stage |-> stage, host |-> host, calls |-> ran]
    IN IF host.lxcInstalled
       THEN [go |-> TRUE, stage |-> "lxc installed", host |-> host, calls |-> << >>]
       ELSE IF ~yes THEN Stop("lxc refused", << >>)
       ELSE IF ~inst.value THEN Stop("lxc not installed", inst.calls)
       ELSE IF ~host.lxcAfter THEN Stop("lxc not detected", inst.calls)
       ELSE [go |-> TRUE, stage |-> "lxc installed",
             host |-> [host EXCEPT !.lxcInstalled = TRUE], calls |-> inst.calls]

\* deploy_lxc_container from `if !lxc_deploy.check_lxc_templates()` to the existence
\* check; `yes` is the answer to "install the templates?": [go, stage, host, calls]
DeployTemplates(ctx, a, yes) ==
    LET inst == InstallPackages(ctx, a.host, "sudo PKG install lxc-templates")
        Stop(stage, ran) == [a EXCEPT !.go = FALSE, !.stage = stage, !.calls = ran]
    IN IF ~a.go \/ a.host.templates THEN a
       ELSE IF ~yes THEN Stop("templates refused", a.calls)
       ELSE IF ~inst.value THEN Stop("templates not installed", a.calls \o inst.calls)
       ELSE [a EXCEPT !.host.templates = a.host.templatesAfter,
                      !.calls = a.calls \o inst.calls]

\* deploy_lxc_container; answers: to "install LXC?" and to "install the templates?"
DeployLxcContainer(ctx, host, answers) ==
    LET Templates(a) == DeployTemplates(ctx, a, answers.templates)
        Create(a) == IF ~a.go
                     THEN [stage |-> a.stage, created |-> FALSE, calls |-> a.calls]
                     ELSE DeployCreate(ctx, a.host, a.calls)
    IN Then(Then(DeployLxc(ctx, host, answers.lxc), Templates), Create)

\* hosts for deploy_lxc_container
DeployHosts ==
    { [QuietHost EXCEPT !.fs[RootLxc] = d, !.lxcInstalled = inst, !.templates = tpl,
                        !.installExit = ie, !.lxcAfter = la, !.templatesAfter = ta,
                        !.appearsAt = 1, !.ts = t] :
        d \in { "absent", "config" }, inst \in BOOLEAN, tpl \in BOOLEAN,
        ie \in { 0, 1 }, la \in BOOLEAN, ta \in BOOLEAN, t \in BOOLEAN }

\* MainApp::deploy_lxc_container, as far as its call of create_container
LxcDeploy ==
    /\ appPc = "lxc" /\ op = NoOp
    /\ \E host \in DeployHosts, lxc \in BOOLEAN, templates \in BOOLEAN :
        LET r == DeployLxcContainer(Ctx, Prepared(host),
                                    [lxc |-> lxc, templates |-> templates])
        IN op' = [name |-> "deploy_lxc_container", host |-> host,
                  answers |-> [lxc |-> lxc, templates |-> templates],
                  value |-> r, calls |-> r.calls]
    /\ lastEvent' = "LxcDeploy"
    /\ UNCHANGED appVars

\* MainApp::lxc_destroy_container, the flow of the 'rmdb' container:
\* [stage, result, exit_code, calls]
LxcDestroyContainer(ctx, host, confirm) ==
    LET Destroy(stopped) ==
            LET Shown(r) == [stage |-> "destroy", result |-> r.result,
                             exit_code |-> r.exit_code, calls |-> stopped.calls \o r.calls]
            IN Then(DestroyContainer(ctx, host), Shown)
    IN
    IF ~confirm
    THEN [stage |-> "not confirmed", result |-> "none", exit_code |-> None,
          calls |-> << >>]
    ELSE IF ~CheckContainerExists(host)
    THEN [stage |-> "no container", result |-> "none", exit_code |-> None,
          calls |-> << >>]
    ELSE Then(StopContainer(ctx, host), Destroy)

\* handle_action(LXCDestroy): lxc_destroy_container, which the menu reaches
\* through ensure_admin; applied here to executors of every mode
LxcDestroyFlow ==
    /\ appPc = "lxc" /\ op = NoOp
    /\ \E host \in DestroyHosts, confirm \in BOOLEAN :
        LET r == LxcDestroyContainer(Ctx, Prepared(host), confirm)
        IN op' = [name |-> "lxc_destroy_container", host |-> host, confirm |-> confirm,
                  result |-> r.result, value |-> r, calls |-> r.calls]
    /\ lastEvent' = "LxcDestroyFlow"
    /\ UNCHANGED appVars

\* hosts for the start and stop operations
StartStopHosts ==
    { [QuietHost EXCEPT !.fs[RootLxc] = d, !.fs[RootLxd] = e, !.state = st,
                        !.spawnOk = s, !.ts = t] :
        d \in DirStates, e \in { "absent", "config" }, st \in { "RUNNING", "STOPPED" },
        s \in BOOLEAN, t \in { tsValid } }

\* LXCDeployment::start_container / stop_container (on an instance) and
\* start_container_by_name / stop_container_by_name
LxcStartStop ==
    /\ appPc = "lxc" /\ op = NoOp
    /\ \E host \in StartStopHosts,
          f \in { "start_container", "stop_container",
                  "start_container_by_name", "stop_container_by_name" } :
        LET r == CASE f = "start_container" -> StartContainer(Ctx, Prepared(host))
                   [] f = "stop_container" -> StopContainer(Ctx, Prepared(host))
                   [] f = "start_container_by_name" ->
                        StartContainerByName(Ctx, Prepared(host))
                   [] f = "stop_container_by_name" ->
                        StopContainerByName(Ctx, Prepared(host))
        IN op' = [name |-> f, host |-> host, result |-> r.result, value |-> r,
                  calls |-> r.calls]
    /\ lastEvent' = "LxcStartStop"
    /\ UNCHANGED appVars

InitLxc ==
    /\ has_sudo \in BOOLEAN
    /\ exec_mode \in ActionMode
    /\ action_mode = exec_mode
    /\ selected_mode = exec_mode
    /\ appPc = "lxc"
    /\ promptCaller = "none"
    /\ attempt = NoAttempt
    /\ joinNext = "none"
    /\ sudo_keepalive = "None"
    /\ stop = FALSE
    /\ needs_reauth = FALSE
    /\ handle = "None"
    /\ stopCalls = 0
    /\ kaPc = "none"
    /\ kaOk = TRUE
    /\ slept = 0
    /\ tsValid \in BOOLEAN
    /\ calls = << >>
    /\ lastEvent = "Init"
    /\ op = NoOp

NextLxc ==
    \/ LxcCheckExistsWithExecutor \/ LxcCheckExists \/ LxcVerify
    \/ LxcCreate \/ LxcListAll
    \/ LxcDestroyByName \/ LxcRunShell \/ LxcCleanupGhost \/ LxcDeploy
    \/ LxcStartStop \/ LxcDestroyFlow

SpecLxc == InitLxc /\ [][NextLxc]_vars


(***************************************************************************)
(* Properties of the application (specification Spec)                      *)
(***************************************************************************)
\* C1: under every trust level other than Admin, a run_shell call that requires
\* admin returns NotAllowed and launches no process.
C1_DeniedNeverLaunches ==
    \A i \in DOMAIN calls :
        (calls[i].requires_admin /\ calls[i].mode # "Admin")
            => (calls[i].result = "NotAllowed" /\ calls[i].launches = 0)

\* a privileged call has been made, and denied, outside Admin
C1_Witness ==
    \E i \in DOMAIN calls :
        /\ calls[i].requires_admin /\ calls[i].mode \in { "ReadOnly", "Safe" }
        /\ calls[i].result = "NotAllowed"

\* C2 (as the specification states it): a command is launched through sudo -n
\* only when the trust level is Admin and the credential session is
\* Authenticated at the time of the call.
C2_SudoOnlyWhenAuthenticated ==
    \A i \in DOMAIN calls :
        calls[i].via = "sudo"
            => (calls[i].mode = "Admin" /\ calls[i].session = "Authenticated")

\* C3: the password prompt reports success only when, in the same attempt,
\* `sudo -S -v` exited 0 and the separate probe `sudo -n -v` exited 0.
C3_DualConfirmation ==
    appPc = "prompt_ok"
        => (attempt.ran /\ attempt.submit = Some(0) /\ attempt.verify = Some(0))

\* the prompt has reported success
C3_Witness == appPc = "prompt_ok" /\ lastEvent = "PromptVerify"

\* C4: clear_reauth_flag, called by ensure_admin after a successful
\* re-authentication, leaves the flag false, and the flag then turns true only by
\* the keep-alive thread storing the result of a failed probe.
C4_ReauthFlagDiscipline ==
    /\ [][lastEvent' = "EnsureClearFlag" => ~NeedsReauth(needs_reauth')]_vars
    /\ [][(~NeedsReauth(needs_reauth) /\ NeedsReauth(needs_reauth'))
            => lastEvent' = "KaProbeFailed"]_vars

\* the flag had been set by a probe and ensure_admin has just cleared it
C4_Witness ==
    /\ lastEvent = "EnsureClearFlag" /\ sudo_keepalive = "Some"
    /\ ~NeedsReauth(needs_reauth)

\* C5: once stop() has returned, or the guard has been dropped, the keep-alive
\* thread has terminated, so that it neither probes nor writes the flag again; a
\* further stop() finds no handle and returns without joining.
C5_StoppedThreadIsDone ==
    /\ []((stopCalls >= 1 \/ sudo_keepalive = "Dropped")
            => (kaPc = "done" /\ handle = "None" /\ appPc # "joining"))
    /\ [][(stopCalls >= 1 \/ sudo_keepalive = "Dropped")
            => (/\ lastEvent' \notin { "KaLoopCheck", "KaProbe", "KaProbeOk",
                                       "KaProbeFailed", "KaSleep" }
                /\ needs_reauth' = needs_reauth)]_vars

\* stop() was called twice and the guard then dropped
C5_Witness == stopCalls >= 3 /\ sudo_keepalive = "Dropped"

\* the steps of the keep-alive thread
KaEvents == { "KaLoopCheck", "KaProbe", "KaProbeOk", "KaProbeFailed", "KaSleep" }

\* C16: a step of the keep-alive thread changes no shared state except that the
\* store after a failed probe sets the reauth flag; it never clears the flag, a
\* successful probe leaves it as it is, and it submits no secret and runs no command
\* of the foreground.
C16_KeepAliveOnlySetsFlag ==
    [][lastEvent' \in KaEvents =>
        /\ needs_reauth => needs_reauth'
        /\ needs_reauth' # needs_reauth => lastEvent' = "KaProbeFailed"
        /\ UNCHANGED << bootVars, fgVars, sudo_keepalive, stop, handle, stopCalls,
                        calls, op >>]_vars

\* a successful probe has stored its result while the flag was set
C16_Witness == lastEvent = "KaProbeOk" /\ needs_reauth /\ kaPc = "sleep"

(***************************************************************************)
(* Properties of the LXC operations (specification SpecLxc)                *)
(***************************************************************************)
ListedEverywhere(host) ==
    /\ GrepLine(host.lsSudo, N_web01) /\ GrepLine(host.lsUser, N_web01)
    /\ GrepLine(host.lxcList, N_web01)
ListedSomewhere(host) ==
    \/ GrepLine(host.lsSudo, N_web01) \/ GrepLine(host.lsUser, N_web01)
    \/ GrepLine(host.lxcList, N_web01)
NoValidDir(host) ==
    \A r \in Range(ContainerRoots) : host.fs[r] \notin { "config", "rootfs" }
SomeBareDir(host) == \E r \in Range(ContainerRoots) : host.fs[r] = "bare"
\* the executor can run privileged commands on the host
Privileged(host) == exec_mode = "Admin" /\ has_sudo /\ host.ts /\ host.spawnOk

\* C6: a name that every listing command reports, with no structurally valid
\* directory under any root, does not exist for
\* check_container_exists_with_executor nor for verify_container().exists.
C6_ListedWithoutValidDir ==
    /\ (op.name = "check_container_exists_with_executor"
        /\ ListedEverywhere(op.host) /\ NoValidDir(op.host)) => op.value = FALSE
    /\ (op.name = "verify_container"
        /\ ListedEverywhere(op.host) /\ NoValidDir(op.host)) => op.value.exists = FALSE

\* every listing reports the name, its directory is bare, the checks all ran
C6_Witness ==
    /\ op.name = "check_container_exists_with_executor"
    /\ ListedEverywhere(op.host) /\ NoValidDir(op.host) /\ SomeBareDir(op.host)
    /\ Privileged(op.host) /\ op.value = FALSE

\* C7 (as the specification states it): check_container_exists does not return
\* true for a name that a listing command reports and that has no structurally
\* valid directory.
C7_ListedAloneIsNotExisting ==
    (op.name = "check_container_exists"
     /\ ListedSomewhere(op.host) /\ NoValidDir(op.host)) => op.value = FALSE

\* C8 (amended): with a bare directory for the name under some root and no
\* structurally valid directory under any root, check_container_exists_with_executor
\* returns false whatever the listings report; detectable_by_ls and
\* detectable_by_list of verify_container are the same on the host with every
\* directory removed.
C8_GhostDirectory ==
    /\ (op.name = "check_container_exists_with_executor"
        /\ SomeBareDir(op.host) /\ NoValidDir(op.host)) => op.value = FALSE
    /\ op.name = "verify_container" =>
        LET bare == VerifyContainer(Ctx, Prepared([op.host EXCEPT !.fs = QuietHost.fs]))
        IN /\ op.value.detectable_by_ls = bare.value.detectable_by_ls
           /\ op.value.detectable_by_list = bare.value.detectable_by_list

\* a bare directory, the checks all ran, no listing reports the name
C8_Witness ==
    /\ op.name = "check_container_exists_with_executor"
    /\ SomeBareDir(op.host) /\ NoValidDir(op.host) /\ ~ListedSomewhere(op.host)
    /\ Privileged(op.host) /\ op.value = FALSE

\* C8 (as stated): a bare directory under a storage root is enough for
\* check_container_exists_with_executor to return false.
C8_AnyBareDirectory ==
    (op.name = "check_container_exists_with_executor" /\ SomeBareDir(op.host))
        => op.value = FALSE

\* C9 (as the specification states it): list_all_containers returns no name that
\* contains whitespace or ':' or is 50 characters long or longer.
C9_ListedNamesAreValid ==
    op.name = "list_all_containers" =>
        \A n \in Names(op.value) :
            /\ \A i \in DOMAIN n : ~IsWhitespace(n[i]) /\ n[i] # ":"
            /\ Len(n) < NameLenLimit

\* C10: create_container on a name whose existence check returns true returns an
\* error, 'already exists' when LXC is installed, and issues neither lxc-create
\* command.
C10_CreateRejectsDuplicate ==
    (op.name = "create_container"
     /\ CheckContainerExistsWithExecutor(Ctx, Prepared(op.host)).value)
        => /\ op.result \in { "Failed", "MissingTool" }
           /\ op.host.lxcInstalled
                => (op.result = "Failed" /\ op.value.error = "already exists")
           /\ \A i \in DOMAIN op.calls :
                op.calls[i].cmd[1] \notin
                    { "lxc-create -n NAME -t alpine -- --release vVERSION",
                      "lxc-create -n NAME -t download -- --dist alpine --release VERSION --arch amd64" }

\* create_container has rejected an existing container
C10_Witness ==
    /\ op.name = "create_container" /\ op.result = "Failed"
    /\ op.value.error = "already exists" /\ op.host.fs[RootLxc] = "config"

\* the creation command of a create_container exited 0
CreatedExitZero(o) ==
    o.name = "create_container" /\ o.result = "Ok" /\ o.value.exit_code = Some(0)

\* C11 (as the specification states it): when the creation command exits 0 and
\* the existence check is false at each of the five polls, the caller of
\* create_container gets a value that is neither an error nor that of a verified
\* success, and containers_add shows it as neither.
C11_UnverifiedIsDistinct ==
    (CreatedExitZero(op) /\ ~op.value.verified /\ op.value.polls = MaxPollAttempts)
        => /\ ContainersAddShows(Returned(op.value)) \notin { "created", "error" }
           /\ Returned(op.value) # [result |-> "Ok", error |-> "", exit_code |-> Some(0)]

\* C12 (as the specification states it): with an executor that can run privileged
\* commands, destroy_container_by_name on a name with no container returns Ok with
\* exit code 0 and containers_destroy shows success, on a first call as on a
\* second call in a row.
C12_DestroyMissingSucceeds ==
    (op.name = "destroy_container_by_name" /\ Privileged(op.host))
        => /\ (\A r \in Range(ContainerRoots) : op.host.fs[r] = "absent")
                => ContainersDestroyShows(op.value) = "destroyed"
           /\ ContainersDestroyShows(op.value) = "destroyed"
                => ContainersDestroyShows(op.again) = "destroyed"

\* the errors run_shell classifies
ExecErrors == { "NotAllowed", "MissingTool", "Failed" }

\* what the caller of an operation is handed: the Result's variant, or Ok for
\* check_container_exists_with_executor, whose bool has no error to carry
HandedBack(o) == IF "result" \in DOMAIN o THEN o.result ELSE "Ok"

\* C17 (as the specification states it): when a run_shell call made by the
\* existence check, list_all_containers or verify_container returns NotAllowed,
\* MissingTool or Failed, the operation hands an error back to its caller and no
\* normal verdict.
C17_ErrorsReachTheCaller ==
    (/\ op.name \in { "check_container_exists_with_executor", "list_all_containers",
                      "verify_container" }
     /\ \E i \in DOMAIN op.calls : op.calls[i].result \in ExecErrors)
        => HandedBack(op) \in ExecErrors

(***************************************************************************)
(* Properties of the executor (specification SpecLxc)                      *)
(***************************************************************************)
\* the run_shell calls of the operation applied
CallsMade == IF op = NoOp THEN << >> ELSE op.calls

\* C13: in Admin, on a host without sudo, a run_shell call that requires admin
\* returns MissingTool and launches no process.
C13_AdminWithoutSudo ==
    \A i \in DOMAIN CallsMade :
        (CallsMade[i].requires_admin /\ CallsMade[i].mode = "Admin" /\ ~has_sudo)
            => (CallsMade[i].result = "MissingTool" /\ CallsMade[i].launches = 0)

\* run_shell has been called in Admin for a privileged command, without sudo
C13_Witness ==
    /\ op.name = "run_shell" /\ exec_mode = "Admin" /\ ~has_sudo
    /\ op.value.requires_admin /\ op.value.result = "MissingTool"

\* C14: a launched process's exit code, zero or not, comes back as Ok carrying
\* that code; Failed comes back only when the process could not be launched.
C14_ExitCodeIsNotAnError ==
    /\ op.name = "run_shell" =>
        /\ (Authorize(exec_mode, has_sudo, op.value.requires_admin) = "Permit"
            /\ op.host.spawnOk)
                => (op.result = "Ok" /\ op.value.exit_code = op.process.exit_code)
        /\ op.result = "Failed" => ~op.host.spawnOk
    /\ \A i \in DOMAIN CallsMade :
        CallsMade[i].result = "Failed" => (~op.host.spawnOk /\ CallsMade[i].exit_code = None)

\* run_shell has returned Ok for a process that exited non-zero
C14_Witness ==
    /\ op.name = "run_shell" /\ op.result = "Ok" /\ op.process.exit_code = Some(127)
    /\ op.value.exit_code = Some(127)

\* C15: a run_shell call makes one launch attempt when the policy permits and
\* none when it denies, whatever the outcome, and leaves the executor's mode and
\* capabilities as they were.
C15_NeverRetries ==
    /\ [](\A i \in DOMAIN CallsMade :
            CallsMade[i].launches =
                IF Authorize(CallsMade[i].mode, has_sudo, CallsMade[i].requires_admin)
                        = "Permit"
                THEN 1 ELSE 0)
    /\ [][op'.name = "run_shell" => (exec_mode' = exec_mode /\ has_sudo' = has_sudo)]_vars

\* run_shell could not launch the process: one attempt, no retry
C15_Witness ==
    /\ op.name = "run_shell" /\ op.result = "Failed" /\ op.value.launches = 1

\* C18: cleanup_ghost_container runs each of its three sub-commands, in order,
\* whatever the earlier ones returned, and returns Ok with exit code 0, also when
\* a sub-command exits non-zero, cannot be launched or is denied.
C18_CleanupAlwaysSucceeds ==
    op.name = "cleanup_ghost_container"
        => /\ Len(op.calls) = Len(CleanupCmds)
           /\ \A i \in DOMAIN CleanupCmds :
                op.calls[i].cmd = CleanupCmds[i] /\ op.calls[i].requires_admin
           /\ op.result = "Ok" /\ op.value.exit_code = Some(0)

\* the first sub-command was refused by sudo and exited non-zero
C18_Witness ==
    /\ op.name = "cleanup_ghost_container" /\ op.calls[1].result = "Ok"
    /\ op.calls[1].exit_code = Some(1) /\ op.result = "Ok"

(***************************************************************************)
(* Properties of the password prompt (specification Spec)                  *)
(***************************************************************************)
\* show_sudo_password_prompt is running
InPrompt == appPc \in { "prompt_input", "prompt_verify", "prompt_error" }

\* C19: a failed attempt of any kind leaves the prompt running (an error screen,
\* then the password input again); the prompt returns false only on Quit and
\* returns true only after an attempt whose submission and probe both exited 0.
C19_FailuresAreNotFatal ==
    /\ [][lastEvent' \in { "PromptSubmit", "PromptVerify" }
            => appPc' \in { "prompt_verify", "prompt_error", "prompt_ok" }]_vars
    /\ [][(appPc = "prompt_error" /\ lastEvent' # "PromptErrorQuit")
            => appPc' \in { "prompt_error", "prompt_input" }]_vars
    /\ [][(InPrompt /\ ~InPrompt')
            => \/ lastEvent' \in { "PromptQuit", "PromptErrorQuit" }
               \/ /\ appPc' = "prompt_ok"
                  /\ attempt'.ran /\ attempt'.submit = Some(0)
                  /\ attempt'.verify = Some(0)]_vars

\* after an incorrect secret and a key press the prompt asks for the secret again
C19_Witness ==
    /\ appPc = "prompt_input" /\ lastEvent = "PromptErrorKey"
    /\ attempt.ran /\ attempt.submit = Some(1)

(***************************************************************************)
(* Properties of the creation flows (specification SpecLxc)                *)
(***************************************************************************)
\* C20 (as the specification states it): when check_lxc_templates returns false,
\* create_container still makes its existence check, and deploy_lxc_container
\* still reaches its existence check and, for a name that does not exist, its call
\* of create_container.
C20_TemplatesAreAdvisory ==
    /\ (op.name = "create_container" /\ op.host.lxcInstalled /\ ~op.host.templates)
        => (op.value.warned /\ Len(op.calls) > 0)
    /\ (op.name = "deploy_lxc_container" /\ op.host.lxcInstalled /\ ~op.host.templates)
        => op.value.stage \in { "already exists", "create_container" }

(***************************************************************************)
(* Properties of the trust level                                           *)
(***************************************************************************)
\* the foreground has not yet validated a choice of trust level
BeforeChoice == appPc \in { "boot_start", "boot" }

\* C21: the executor's mode equals action_mode in every state, both are Safe
\* until the boot sequence validates a choice, the only step that changes
\* either is that validation, which stores the selected level in both, and
\* once the choice is made the boot menu is never entered again.
C21_TrustLevelChosenOnce ==
    /\ [](exec_mode = action_mode /\ (BeforeChoice => action_mode = "Safe"))
    /\ [][(action_mode' # action_mode \/ exec_mode' # exec_mode)
            => /\ appPc = "boot" /\ ~BeforeChoice'
               /\ action_mode' = selected_mode /\ exec_mode' = selected_mode]_vars
    /\ [][~BeforeChoice => ~BeforeChoice']_vars

\* a level other than the initial Safe was chosen and later steps were taken
C21_Witness ==
    /\ action_mode = "ReadOnly" /\ exec_mode = "ReadOnly"
    /\ lastEvent = "ShowDhcpLeases"

(***************************************************************************)
(* Properties of create_container's commands and polls                     *)
(***************************************************************************)
CmdAlpine == "lxc-create -n NAME -t alpine -- --release vVERSION"
CmdDownload ==
    "lxc-create -n NAME -t download -- --dist alpine --release VERSION --arch amd64"

\* the creation commands handed to run_shell by an operation, in order
CreationCalls(o) ==
    SelectSeq(o.calls, LAMBDA c : c.cmd[1] \in { CmdAlpine, CmdDownload })

\* run_shell returned Ok with exit code 0
ExitedZero(r) == IsOk(r) /\ r.exit_code = Some(0)
\* run_shell returned Ok with an exit code other than 0
ExitedNonZero(r) == IsOk(r) /\ r.exit_code # None /\ r.exit_code # Some(0)

\* C22: create_container hands at most two creation commands to run_shell, the
\* alpine one first; the download one follows exactly when the alpine one did
\* not come back Ok with exit code 0 (a non-zero exit code, no exit code, or an
\* error of run_shell), never when it exited 0; the value returned is that of
\* the last creation command.
C22_FallbackWhenPrimaryNotZero ==
    op.name = "create_container" =>
        LET cc == CreationCalls(op) IN
        /\ Len(cc) <= 2
        /\ Len(cc) >= 1 => cc[1].cmd[1] = CmdAlpine
        /\ Len(cc) = 2 <=> (Len(cc) >= 1 /\ ~ExitedZero(cc[1]))
        /\ Len(cc) = 2 => cc[2].cmd[1] = CmdDownload
        /\ Len(cc) >= 1 => /\ op.value.result = cc[Len(cc)].result
                           /\ op.value.exit_code = cc[Len(cc)].exit_code

\* the alpine command exited 1 and the download command exited 0
C22_Witness ==
    /\ op.name = "create_container"
    /\ Len(CreationCalls(op)) = 2
    /\ ExitedNonZero(CreationCalls(op)[1])
    /\ ExitedZero(CreationCalls(op)[2])
    /\ op.value.result = "Ok" /\ op.value.exit_code = Some(0)

\* C22 (as stated): the download command is issued exactly when the alpine
\* command returned a non-zero exit code.
C22_FallbackOnlyOnNonZeroExit ==
    op.name = "create_container" =>
        (Len(CreationCalls(op)) = 2
            <=> (Len(CreationCalls(op)) >= 1 /\ ExitedNonZero(CreationCalls(op)[1])))

\* the existence checks an operation made: each begins with the test on the
\* first storage root
ExistenceChecks(o) ==
    Len(SelectSeq(o.calls, LAMBDA c :
            c.cmd = << "test -d DIR && echo found || echo 'not found'", RootLxc >>))

\* the existence check as the k-th poll of a create_container sees it
PollSees(o, k) ==
    CheckContainerExistsWithExecutor(Ctx, HostAtPoll(Prepared(o.host), k)).value

\* C23: when the last creation command exited 0, create_container polls the
\* existence check at least once and at most MaxPollAttempts times, every poll
\* before the last is negative, it stops at the first positive poll and
\* otherwise after the last attempt, and the waits between consecutive polls
\* are strictly increasing; when no creation command exited 0 it polls not at
\* all; the calls it makes are the check before creation, the creation
\* commands and the polls, a bounded number.
C23_BoundedIncreasingPolls ==
    op.name = "create_container" =>
        LET v == op.value
            cc == CreationCalls(op)
            created == Len(cc) >= 1 /\ ExitedZero(cc[Len(cc)])
        IN
        /\ v.polls \in 0..MaxPollAttempts
        /\ ~created => v.polls = 0 /\ ~v.verified /\ ExistenceChecks(op) \in { 0, 1 }
        /\ created =>
            /\ v.polls >= 1
            /\ ExistenceChecks(op) = 1 + v.polls
            /\ \A j \in 1..(v.polls - 1) : ~PollSees(op, j)
            /\ v.verified <=> PollSees(op, v.polls)
            /\ ~v.verified => v.polls = MaxPollAttempts
            /\ Len(v.delays) = IF v.verified \/ v.polls = MaxPollAttempts
                               THEN v.polls - 1 ELSE v.polls
            /\ \A k \in 1..(Len(v.delays) - 1) : v.delays[k] < v.delays[k + 1]
            /\ \A k \in DOMAIN v.delays : v.delays[k] > 0

\* the container appeared at the third poll: two negative polls, two waits
C23_Witness ==
    /\ op.name = "create_container"
    /\ op.value.verified /\ op.value.polls = 3
    /\ op.value.delays = << 500, 1000 >>

(***************************************************************************)
(* Properties of start, stop and destroy                                   *)
(***************************************************************************)
StartStopOps ==
    { "start_container", "stop_container",
      "start_container_by_name", "stop_container_by_name" }
\* the invocations of the runtime with `-f <config path>` and with `-P <root>`
ExplicitConfigForms == { "lxc-start -f CONFIG -n NAME", "lxc-stop -f CONFIG -n NAME" }
StorageRootForms ==
    { "lxc-start -P /var/lib/lxc -n NAME", "lxc-stop -P /var/lib/lxc -n NAME" }
RuntimeCalls(o) ==
    SelectSeq(o.calls, LAMBDA c : c.cmd[1] \in ExplicitConfigForms \cup StorageRootForms)

\* C24 (as the specification states it): start and stop invoke the runtime with
\* an explicit configuration path only when a configuration file exists at that
\* path, and when no candidate path holds one their first invocation uses the
\* storage-root form.
C24_ExplicitPathOnlyIfConfigThere ==
    op.name \in StartStopOps =>
        /\ \A i \in DOMAIN op.calls :
              op.calls[i].cmd[1] \in ExplicitConfigForms
                  => op.host.fs[op.calls[i].cmd[2]] = "config"
        /\ (\A r \in Range(ConfigRoots) : op.host.fs[r] # "config")
              => RuntimeCalls(op)[1].cmd[1] \in StorageRootForms

\* the operation ran a destroy path
RanDestroyPath(o) ==
    \/ o.name = "destroy_container_by_name"
    \/ o.name = "lxc_destroy_container" /\ o.value.stage = "destroy"
StopForms == { "lxc-stop -f CONFIG -n NAME", "lxc-stop -P /var/lib/lxc -n NAME" }
DestroyForms == { "lxc-destroy -n NAME", "lxc-destroy -f -n NAME 2>&1" }

\* C25 (as the specification states it): every destroy path hands a stop to
\* run_shell first, then, whatever the stop returned, exactly one destroy
\* command, which carries the forced-removal flag -f, and returns the result of
\* that destroy command.
C25_StopThenForcedDestroy ==
    RanDestroyPath(op) =>
        LET c == op.value.calls
            n == Len(c)
        IN
        /\ n >= 2
        /\ \E i \in 1..(n - 1) : c[i].cmd[1] \in StopForms
        /\ \A i \in 1..(n - 1) : c[i].cmd[1] \notin DestroyForms
        /\ c[n].cmd[1] = "lxc-destroy -f -n NAME 2>&1"
        /\ op.value.result = c[n].result /\ op.value.exit_code = c[n].exit_code

(***************************************************************************)
(* Properties of the keep-alive thread against ensure_admin                *)
(***************************************************************************)
\* C26 (as the specification states it): a failed probe whose store lands after
\* the re-authentication prompt has returned true and before ensure_admin calls
\* clear_reauth_flag is not erased by the clear: the flag is still set after it.
C26_NoFailedProbeLost ==
    [][(/\ appPc = "prompt_ok" /\ promptCaller = "ensure"
        /\ lastEvent = "KaProbeFailed"
        /\ lastEvent' = "EnsureClearFlag")
            => NeedsReauth(needs_reauth')]_vars

\* C27: once the stop flag is raised the keep-alive thread eventually finishes
\* and a pending stop() or drop returns; after the flag is raised the loop test
\* leads only to the end of the thread, never to a new probe, and the sleep
\* loop is left at its next test without another 250 ms slice.
C27_StopEndsTheThread ==
    /\ stop ~> (kaPc = "done")
    /\ (appPc = "joining") ~> (appPc # "joining")
    /\ [][(stop /\ kaPc = "loop" /\ kaPc' # kaPc) => kaPc' = "done"]_vars
    /\ [][(stop /\ kaPc = "sleep" /\ lastEvent' = "KaSleep")
            => (kaPc' = "loop" /\ slept' = slept)]_vars
    /\ [][(stop /\ kaPc' = "probe") => kaPc = "probe"]_vars

\* stop() was called while the thread was sleeping, the thread left its sleep
\* before the interval was over and finished, and the call returned
C27_Witness ==
    /\ stop /\ kaPc = "done" /\ handle = "None" /\ slept < IntervalSlices
    /\ lastEvent = "JoinReturn"

(***************************************************************************)
(* Properties of the session after boot                                    *)
(***************************************************************************)
\* the foreground is in the main loop of run(): the menu, a gated action, or
\* the prompt opened by ensure_admin
MainLoop ==
    \/ appPc \in { "main", "gated" }
    \/ /\ appPc \in { "prompt_input", "prompt_verify", "prompt_error", "prompt_ok" }
       /\ promptCaller = "ensure"

\* C28: in every state of the main loop, under Admin sudo is present and there
\* is one guard whose thread is running, under the other levels there is no
\* guard and no thread; the guard is created in one step only, the one that ends
\* a boot sequence whose two authentication tests both exited 0, when no guard
\* and no thread exist yet.
C28_OneKeepAlivePerSession ==
    /\ [](MainLoop =>
            IF action_mode = "Admin"
            THEN /\ has_sudo
                 /\ sudo_keepalive = "Some" /\ handle = "Some"
                 /\ kaPc \notin { "none", "done" }
            ELSE sudo_keepalive = "None" /\ handle = "None" /\ kaPc = "none")
    /\ [][(\/ (sudo_keepalive # "Some" /\ sudo_keepalive' = "Some")
           \/ (handle # "Some" /\ handle' = "Some")
           \/ (kaPc \in { "none", "done" } /\ kaPc' \notin { "none", "done" }))
            => /\ appPc = "prompt_ok" /\ promptCaller = "boot" /\ MainLoop'
               /\ attempt.submit = Some(0) /\ attempt.verify = Some(0)
               /\ action_mode = "Admin"
               /\ sudo_keepalive = "None" /\ kaPc = "none" /\ handle = "None"]_vars

\* an Admin session that has re-authenticated in the main loop
C28_Witness ==
    /\ action_mode = "Admin" /\ appPc = "gated"
    /\ lastEvent = "EnsureClearFlag"
    /\ sudo_keepalive = "Some" /\ kaPc # "none"

(***************************************************************************)
(* Properties of ensure_admin                                              *)
(***************************************************************************)
\* the prompt opened by ensure_admin is on screen, up to and including the
\* moment it returns true
ReauthPrompt ==
    /\ appPc \in { "prompt_input", "prompt_verify", "prompt_error", "prompt_ok" }
    /\ promptCaller = "ensure"

\* C29: ensure_admin under Admin with the reauth flag set opens the prompt; when
\* the user cancels it, ensure_admin returns false: the foreground is back at the
\* menu, the gated action has not run and has issued no command, and the flag is
\* still set, being cleared only after a prompt that returned true, so the next
\* gated action opens the prompt again. The gated action runs only under Admin,
\* from a gate that found the flag clear or from a prompt that returned true.
\* Under any other trust level ensure_admin returns false at once: no prompt, no
\* gated action, and no step changes the flag.
C29_CancelledReauthKeepsTheFlag ==
    /\ [](ReauthPrompt => needs_reauth /\ action_mode = "Admin")
    /\ [][ReauthPrompt /\ appPc' = "main"
            => /\ appPc \in { "prompt_input", "prompt_error" }
               /\ lastEvent' \in { "PromptQuit", "PromptErrorQuit" }
               /\ needs_reauth' /\ calls' = calls]_vars
    /\ [][needs_reauth /\ ~needs_reauth'
            => appPc = "prompt_ok" /\ promptCaller = "ensure"]_vars
    /\ [][appPc = "main" /\ action_mode = "Admin" /\ needs_reauth
          /\ lastEvent' = "EnsureAdmin" /\ appPc' # "main"
            => appPc' = "prompt_input" /\ promptCaller' = "ensure"]_vars
    /\ [][appPc # "gated" /\ appPc' = "gated"
            => /\ action_mode = "Admin"
               /\ \/ appPc = "main" /\ ~needs_reauth
                  \/ appPc = "prompt_ok" /\ promptCaller = "ensure"]_vars
    /\ [](action_mode # "Admin" => appPc # "gated" /\ promptCaller # "ensure")
    /\ [][action_mode # "Admin" /\ appPc = "main" /\ lastEvent' = "EnsureAdminRefused"
            => /\ appPc' = "main" /\ promptCaller' = promptCaller
               /\ needs_reauth' = needs_reauth /\ calls' = calls]_vars
    /\ [][action_mode # "Admin" => needs_reauth' = needs_reauth]_vars

\* the user has just cancelled the re-authentication prompt: back at the menu
\* under Admin, the flag still set
C29_Witness ==
    /\ appPc = "main" /\ action_mode = "Admin"
    /\ lastEvent \in { "PromptQuit", "PromptErrorQuit" }
    /\ needs_reauth /\ sudo_keepalive = "Some"

(***************************************************************************)
(* The existence check and the trust level (specification SpecLxc)         *)
(***************************************************************************)
\* one of the three roots holds a directory for the name with a config file or
\* a rootfs in it
HasValidDirectory(host) ==
    \E i \in DOMAIN ContainerRoots : host.fs[ContainerRoots[i]] \in { "config", "rootfs" }

\* a privileged probe can run: Admin, sudo present, its timestamp valid, and the
\* OS able to launch the process
Escalated(host) ==
    exec_mode = "Admin" /\ has_sudo /\ host.ts /\ host.spawnOk

====
